---- MODULE Spec2Model ----
(***************************************************************************)
(* State-dispatch runtime of rust_payment_engine/src/state_machine:        *)
(* StateManager (state_manager.rs), the dispatch registry (registry.rs),   *)
(* the three pluggable states (states/*.rs) and the event channel.         *)
(*                                                                         *)
(* One step of the model is what one caller does between two points where  *)
(* another thread can see or change shared data: one acquisition of a lock *)
(* together with the code that runs before the next .await, or one channel *)
(* operation.  The registry lookup of execute (lines 79-80) is taken in    *)
(* the step of the tag read before it (line 76): the registry is written   *)
(* once, and before any tag can change, so the two reads commute with      *)
(* every step of another caller that could come between them.              *)
(*                                                                         *)
(* The guards of the tag lock (current_state_type) are temporaries that    *)
(* are dropped inside the statement that takes them (state_manager.rs      *)
(* lines 76, 91, 94, 107), so each of those statements is one step and the *)
(* tag lock is free between steps.  The guard of the value lock            *)
(* (current_state, line 82) lives until execute returns; it is the         *)
(* variable state_guard.  Lock grants are taken in any order, which        *)
(* includes the FIFO order of tokio's RwLock.                              *)
(*                                                                         *)
(* f64 amounts are modelled by the whole values -1..MaxAmount and NaN,      *)
(* compared as IEEE 754 compares them; the timestamp of an event and the   *)
(* strings of an EmvResult carry no behaviour and are left out.            *)
(***************************************************************************)
EXTENDS Integers, Sequences, FiniteSets, TLC

\* ------------------------------------------------------------------ bounds
NumCallers == 2
MaxCalls   == 3
MaxAmount  == 1

Callers == 1..NumCallers

\* f64: a whole value, or NaN.  Every ordered comparison with NaN is false.
F64(n) == [nan |-> FALSE, val |-> n]
NaN    == [nan |-> TRUE, val |-> 0]
f64_le(x, y) == ~x.nan /\ ~y.nan /\ x.val <= y.val
f64_gt(x, y) == ~x.nan /\ ~y.nan /\ x.val > y.val

Amounts == {F64(n) : n \in (0 - 1)..MaxAmount} \cup {NaN}

\* ------------------------------------------------------------------ types
\* Option<T>: None is the empty sequence, Some(x) the sequence of x alone.
None      == <<>>
Some(x)   == <<x>>
IsSome(o) == o # None
Unwrap(o) == o[1]
NoType    == "NoType"

StateType    == {"AwaitingInfo", "EMVPayment", "PaymentSuccess"}
PaymentType  == {"Debit", "Credit"}

\* Concrete action types (the TypeId behind Box<dyn Any>) and their values.
AwaitingInfoAction ==
    [type : {"AwaitingInfoAction"}, name : {"SetAmount"}, amount : Amounts]
    \cup [type : {"AwaitingInfoAction"}, name : {"SetPaymentType"}, payment_type : PaymentType]
    \cup [type : {"AwaitingInfoAction"}, name : {"ConfirmInfo"}]
EmvPaymentAction ==
    [type : {"EmvPaymentAction"}, name : {"ProcessPayment", "CompletePayment", "CancelPayment"}]
PaymentSuccessAction ==
    [type : {"PaymentSuccessAction"}, name : {"Reset"}]
\* execute<A> accepts every 'static type: one value of a type no state accepts.
OtherAction == [type : {"Other"}, name : {"Other"}]
Actions == AwaitingInfoAction \cup EmvPaymentAction \cup PaymentSuccessAction \cup OtherAction
NoAction == [type |-> "NoAction", name |-> "NoAction"]

\* Concrete state values; the field type is the TypeId of the boxed value.
PaymentInfo(amount, payment_type) == [amount |-> amount, payment_type |-> payment_type]
AwaitingInfo(amount, payment_type) ==
    [type |-> "AwaitingInfo", amount |-> amount, payment_type |-> payment_type]
EMVPayment(payment_info, processing) ==
    [type |-> "EMVPayment", payment_info |-> payment_info, processing |-> processing,
     emv_result |-> None]
PaymentSuccess(payment_info) ==
    [type |-> "PaymentSuccess", payment_info |-> payment_info, result |-> "EmvResult"]
AwaitingInfo_initial == AwaitingInfo(None, None)

StateChangeEvent(from_state, to_state) == [from_state |-> from_state, to_state |-> to_state]

\* format!("{:.2}", amount) of a whole amount: its units and two zero decimals.
Format2(amount) ==
    IF amount.nan THEN [text |-> "NaN"]
    ELSE [units |-> amount.val, cents |-> <<0, 0>>]

\* State::description of each concrete state: the fixed text and the values
\* formatted into it.
AwaitingInfo_description(self) ==
    IF IsSome(self.amount) /\ IsSome(self.payment_type)
    THEN [text |-> "Aguardando confirmacao: R$ {:.2} ({:?})",
          amount |-> Format2(Unwrap(self.amount)),
          payment_type |-> Unwrap(self.payment_type)]
    ELSE [text |-> "Aguardando informacoes do pagamento"]
EMVPayment_description(self) ==
    IF self.processing
    THEN [text |-> "Processando pagamento de R$ {:.2}...",
          amount |-> Format2(self.payment_info.amount)]
    ELSE [text |-> "Pronto para processar pagamento de R$ {:.2}",
          amount |-> Format2(self.payment_info.amount)]
PaymentSuccess_description(self) ==
    [text |-> "Pagamento concluido com sucesso - ID: {}, Codigo: {}, Valor: R$ {:.2}",
     result |-> self.result,
     amount |-> Format2(self.payment_info.amount)]
description(self) ==
    CASE self.type = "AwaitingInfo"   -> AwaitingInfo_description(self)
      [] self.type = "EMVPayment"     -> EMVPayment_description(self)
      [] self.type = "PaymentSuccess" -> PaymentSuccess_description(self)

\* ------------------------------------------------------------------ results
Ok(msg)  == [ok |-> TRUE, msg |-> msg]
Err(msg) == [ok |-> FALSE, msg |-> msg]
NoResult           == [pending |-> TRUE]
Described(d)       == [ok |-> TRUE, description |-> d]
Stay               == Ok("Acao executada - permanece no mesmo estado")
Transitioned(t)    == [ok |-> TRUE, msg |-> "Transicionado para", new_type |-> t]
UnregisteredState  == Err("Estado nao registrado")
StateTypeMismatch  == Err("Estado invalido")
IncompatibleAction == Err("Acao incompativel")
InvalidAmount      == Err("Valor deve ser maior que zero")
AmountNotSet       == Err("Valor nao definido")
PaymentTypeNotSet  == Err("Tipo de pagamento nao definido")
AlreadyProcessing  == Err("Pagamento ja esta sendo processado")
NotStarted         == Err("Pagamento ainda nao foi iniciado")
NotifyFailed       == Err("Falha ao notificar mudanca de estado")

\* What execute_action_with_transition leaves and returns: self after the
\* call, and Err(e), Ok(None) or Ok(Some((new_type, new_state))).
TErr(self, e)        == [self |-> self, err |-> Some(e), next |-> None]
TStay(self)          == [self |-> self, err |-> None, next |-> None]
TNext(self, t, next) ==
    [self |-> self, err |-> None, next |-> Some([new_type |-> t, new_state |-> next])]

\* ------------------------------------------------------------------ states
\* Mutant: SetAmount returns Some((AwaitingInfo, updated copy)) instead of None.
AwaitingInfo_execute_SetAmountTransitions(self, a) ==
    CASE a.name = "SetAmount" ->
           IF f64_le(a.amount, F64(0)) THEN TErr(self, InvalidAmount)
           ELSE TNext(self, "AwaitingInfo", [self EXCEPT !.amount = Some(a.amount)])
      [] a.name = "SetPaymentType" ->
           TStay([self EXCEPT !.payment_type = Some(a.payment_type)])
      [] a.name = "ConfirmInfo" ->
           IF ~IsSome(self.amount) THEN TErr(self, AmountNotSet)
           ELSE IF ~IsSome(self.payment_type) THEN TErr(self, PaymentTypeNotSet)
           ELSE TNext(self, "EMVPayment",
                      EMVPayment(PaymentInfo(Unwrap(self.amount), Unwrap(self.payment_type)),
                                 FALSE))

\* Mutant: SetAmount rejects only negative amounts.
AwaitingInfo_execute_ZeroAccepted(self, a) ==
    CASE a.name = "SetAmount" ->
           IF f64_le(a.amount, F64(0)) /\ a.amount # F64(0) THEN TErr(self, InvalidAmount)
           ELSE TStay([self EXCEPT !.amount = Some(a.amount)])
      [] a.name = "SetPaymentType" ->
           TStay([self EXCEPT !.payment_type = Some(a.payment_type)])
      [] a.name = "ConfirmInfo" ->
           IF ~IsSome(self.amount) THEN TErr(self, AmountNotSet)
           ELSE IF ~IsSome(self.payment_type) THEN TErr(self, PaymentTypeNotSet)
           ELSE TNext(self, "EMVPayment",
                      EMVPayment(PaymentInfo(Unwrap(self.amount), Unwrap(self.payment_type)),
                                 FALSE))

\* Mutant: ConfirmInfo looks at the payment type before the amount.
AwaitingInfo_execute_TypeCheckedFirst(self, a) ==
    CASE a.name = "SetAmount" ->
           IF f64_le(a.amount, F64(0)) THEN TErr(self, InvalidAmount)
           ELSE TStay([self EXCEPT !.amount = Some(a.amount)])
      [] a.name = "SetPaymentType" ->
           TStay([self EXCEPT !.payment_type = Some(a.payment_type)])
      [] a.name = "ConfirmInfo" ->
           IF ~IsSome(self.payment_type) THEN TErr(self, PaymentTypeNotSet)
           ELSE IF ~IsSome(self.amount) THEN TErr(self, AmountNotSet)
           ELSE TNext(self, "EMVPayment",
                      EMVPayment(PaymentInfo(Unwrap(self.amount), Unwrap(self.payment_type)),
                                 FALSE))

\* Mutant: ConfirmInfo builds an EMVPayment that is already processing.
AwaitingInfo_execute_StartsProcessing(self, a) ==
    CASE a.name = "SetAmount" ->
           IF f64_le(a.amount, F64(0)) THEN TErr(self, InvalidAmount)
           ELSE TStay([self EXCEPT !.amount = Some(a.amount)])
      [] a.name = "SetPaymentType" ->
           TStay([self EXCEPT !.payment_type = Some(a.payment_type)])
      [] a.name = "ConfirmInfo" ->
           IF ~IsSome(self.amount) THEN TErr(self, AmountNotSet)
           ELSE IF ~IsSome(self.payment_type) THEN TErr(self, PaymentTypeNotSet)
           ELSE TNext(self, "EMVPayment",
                      EMVPayment(PaymentInfo(Unwrap(self.amount), Unwrap(self.payment_type)),
                                 TRUE))

\* Mutant: SetAmount keeps an amount that is already stored.
AwaitingInfo_execute_KeepsFirstAmount(self, a) ==
    CASE a.name = "SetAmount" ->
           IF f64_le(a.amount, F64(0)) THEN TErr(self, InvalidAmount)
           ELSE IF IsSome(self.amount) THEN TStay(self)
           ELSE TStay([self EXCEPT !.amount = Some(a.amount)])
      [] a.name = "SetPaymentType" ->
           TStay([self EXCEPT !.payment_type = Some(a.payment_type)])
      [] a.name = "ConfirmInfo" ->
           IF ~IsSome(self.amount) THEN TErr(self, AmountNotSet)
           ELSE IF ~IsSome(self.payment_type) THEN TErr(self, PaymentTypeNotSet)
           ELSE TNext(self, "EMVPayment",
                      EMVPayment(PaymentInfo(Unwrap(self.amount), Unwrap(self.payment_type)),
                                 FALSE))

\* impl PaymentState<AwaitingInfoAction> for AwaitingInfo
AwaitingInfo_execute_action_with_transition(self, a) ==
    CASE a.name = "SetAmount" ->
           IF f64_le(a.amount, F64(0)) THEN TErr(self, InvalidAmount)
           ELSE TStay([self EXCEPT !.amount = Some(a.amount)])
      [] a.name = "SetPaymentType" ->
           TStay([self EXCEPT !.payment_type = Some(a.payment_type)])
      [] a.name = "ConfirmInfo" ->
           IF ~IsSome(self.amount) THEN TErr(self, AmountNotSet)
           ELSE IF ~IsSome(self.payment_type) THEN TErr(self, PaymentTypeNotSet)
           ELSE TNext(self, "EMVPayment",
                      EMVPayment(PaymentInfo(Unwrap(self.amount), Unwrap(self.payment_type)),
                                 FALSE))

\* Mutant: ProcessPayment does not look at the processing flag.
EMVPayment_execute_ProcessRepeatable(self, a) ==
    CASE a.name = "ProcessPayment" ->
           TStay([self EXCEPT !.processing = TRUE])
      [] a.name = "CompletePayment" ->
           IF ~self.processing THEN TErr(self, NotStarted)
           ELSE TNext(self, "PaymentSuccess", PaymentSuccess(self.payment_info))
      [] a.name = "CancelPayment" ->
           TNext(self, "AwaitingInfo", AwaitingInfo_initial)

\* Mutant: CompletePayment does not look at the processing flag.
EMVPayment_execute_CompleteUnchecked(self, a) ==
    CASE a.name = "ProcessPayment" ->
           IF self.processing THEN TErr(self, AlreadyProcessing)
           ELSE TStay([self EXCEPT !.processing = TRUE])
      [] a.name = "CompletePayment" ->
           TNext(self, "PaymentSuccess", PaymentSuccess(self.payment_info))
      [] a.name = "CancelPayment" ->
           TNext(self, "AwaitingInfo", AwaitingInfo_initial)

\* Mutant: CancelPayment carries the payment info back into AwaitingInfo.
EMVPayment_execute_CancelKeepsInfo(self, a) ==
    CASE a.name = "ProcessPayment" ->
           IF self.processing THEN TErr(self, AlreadyProcessing)
           ELSE TStay([self EXCEPT !.processing = TRUE])
      [] a.name = "CompletePayment" ->
           IF ~self.processing THEN TErr(self, NotStarted)
           ELSE TNext(self, "PaymentSuccess", PaymentSuccess(self.payment_info))
      [] a.name = "CancelPayment" ->
           TNext(self, "AwaitingInfo",
                 AwaitingInfo(Some(self.payment_info.amount),
                              Some(self.payment_info.payment_type)))


\* Mutant: CompletePayment books every payment as a credit payment.
EMVPayment_execute_CompleteAsCredit(self, a) ==
    CASE a.name = "ProcessPayment" ->
           IF self.processing THEN TErr(self, AlreadyProcessing)
           ELSE TStay([self EXCEPT !.processing = TRUE])
      [] a.name = "CompletePayment" ->
           IF ~self.processing THEN TErr(self, NotStarted)
           ELSE TNext(self, "PaymentSuccess",
                      PaymentSuccess(PaymentInfo(self.payment_info.amount, "Credit")))
      [] a.name = "CancelPayment" ->
           TNext(self, "AwaitingInfo", AwaitingInfo_initial)

\* Mutant: CompletePayment records nothing and stays in EMVPayment.
EMVPayment_execute_CompleteStays(self, a) ==
    CASE a.name = "ProcessPayment" ->
           IF self.processing THEN TErr(self, AlreadyProcessing)
           ELSE TStay([self EXCEPT !.processing = TRUE])
      [] a.name = "CompletePayment" ->
           IF ~self.processing THEN TErr(self, NotStarted)
           ELSE TStay(self)
      [] a.name = "CancelPayment" ->
           TNext(self, "AwaitingInfo", AwaitingInfo_initial)

\* impl PaymentState<EmvPaymentAction> for EMVPayment
EMVPayment_execute_action_with_transition(self, a) ==
    CASE a.name = "ProcessPayment" ->
           IF self.processing THEN TErr(self, AlreadyProcessing)
           ELSE TStay([self EXCEPT !.processing = TRUE])
      [] a.name = "CompletePayment" ->
           IF ~self.processing THEN TErr(self, NotStarted)
           ELSE TNext(self, "PaymentSuccess", PaymentSuccess(self.payment_info))
      [] a.name = "CancelPayment" ->
           TNext(self, "AwaitingInfo", AwaitingInfo_initial)

\* Mutant: Reset is refused, PaymentSuccess is final.
PaymentSuccess_execute_ResetRefused(self, a) ==
    CASE a.name = "Reset" -> TErr(self, IncompatibleAction)

\* impl PaymentState<PaymentSuccessAction> for PaymentSuccess
PaymentSuccess_execute_action_with_transition(self, a) ==
    CASE a.name = "Reset" -> TNext(self, "AwaitingInfo", AwaitingInfo_initial)

\* ------------------------------------------------------------------ registry
\* The closures initialize_registry inserts, named by the tag they are
\* inserted under: downcast the state, then the action, then run the state.
AwaitingInfoDispatch(state, a) ==
    IF state.type # "AwaitingInfo" THEN TErr(state, StateTypeMismatch)
    ELSE IF a.type # "AwaitingInfoAction" THEN TErr(state, IncompatibleAction)
    ELSE AwaitingInfo_execute_action_with_transition(state, a)

EMVPaymentDispatch(state, a) ==
    IF state.type # "EMVPayment" THEN TErr(state, StateTypeMismatch)
    ELSE IF a.type # "EmvPaymentAction" THEN TErr(state, IncompatibleAction)
    ELSE EMVPayment_execute_action_with_transition(state, a)

\* Mutant: an action of another type is ignored instead of rejected.
PaymentSuccessDispatch_IgnoresAction(state, a) ==
    IF state.type # "PaymentSuccess" THEN TErr(state, StateTypeMismatch)
    ELSE IF a.type # "PaymentSuccessAction" THEN TStay(state)
    ELSE PaymentSuccess_execute_action_with_transition(state, a)

PaymentSuccessDispatch(state, a) ==
    IF state.type # "PaymentSuccess" THEN TErr(state, StateTypeMismatch)
    ELSE IF a.type # "PaymentSuccessAction" THEN TErr(state, IncompatibleAction)
    ELSE PaymentSuccess_execute_action_with_transition(state, a)

\* Calling a DispatchFn value (a function pointer, named by its closure).
CallDispatchFn(f, state, a) ==
    CASE f = "AwaitingInfo"   -> AwaitingInfoDispatch(state, a)
      [] f = "EMVPayment"     -> EMVPaymentDispatch(state, a)
      [] f = "PaymentSuccess" -> PaymentSuccessDispatch(state, a)

\* Mutant: the closure inserted under PaymentSuccess is a copy of the
\* EMVPayment one.
FullRegistry_CopiedClosure ==
    [t \in StateType |-> IF t = "PaymentSuccess" THEN "EMVPayment" ELSE t]

\* The map initialize_registry builds before it sets the OnceLock.
FullRegistry == [t \in StateType |-> t]

\* Mutant: a tag missing from a populated table falls back to an entry the
\* table does hold.
get_dispatch_fn_FallsBack(reg, state_type) ==
    IF IsSome(reg)
    THEN IF state_type \in DOMAIN Unwrap(reg)
         THEN Some(Unwrap(reg)[state_type])
         ELSE Some(Unwrap(reg)[CHOOSE t \in DOMAIN Unwrap(reg) : TRUE])
    ELSE None

\* get_dispatch_fn: STATE_REGISTRY.get().and_then(|r| r.get(&state_type).copied())
get_dispatch_fn(reg, state_type) ==
    IF IsSome(reg) /\ state_type \in DOMAIN Unwrap(reg)
    THEN Some(Unwrap(reg)[state_type]) ELSE None

\* The Arcs a handle points to, each named by the call that allocated it.
\* StateManager::new allocates the three of the manager, PaymentStateApi::new
\* the one around the receiver.
NewHandle ==
    [current_state |-> "new", current_state_type |-> "new",
     state_sender |-> "new", event_receiver |-> "new"]

VARIABLES
    current_state,       \* the boxed state value (StateManager.current_state)
    current_state_type,  \* the tag (StateManager.current_state_type)
    state_guard,         \* Some(caller holding current_state's write guard) or None
    registry,            \* STATE_REGISTRY: None (unset) or a map tag -> handler
    rx_alive,            \* the UnboundedReceiver has not been dropped
    queue,               \* events in the channel, oldest first
    received,            \* events the receiver has taken, oldest first
    commits,             \* history: the replacements of current_state, in order: the
                         \* concrete types replaced and stored, and the tag at that time
    calls,               \* history: execute calls started
    pc,                  \* per caller: "idle", or the line its execute call waits at
    action,              \* per caller: the action of its execute call in progress
    current_type,        \* per caller: the tag read at line 76
    dispatch_fn,         \* per caller: the routing function found at line 79
    transition,          \* per caller: Some((new_type, new_state)) of line 86
    old_type,            \* per caller: the tag read at line 91
    result,              \* per caller: what its last call returned
    reading,             \* per caller: Some(S) while it holds the read guard of
                         \* current_state inside get_description::<S>, else None
    handle,              \* per caller: Some(the Arcs its clone points to) or None
    rx_lock,             \* Some(caller holding PaymentStateApi.event_receiver's
                         \* Mutex) or None
    tag_readers          \* callers holding a read guard of current_state_type

vars == <<current_state, current_state_type, state_guard, registry, rx_alive, queue,
          received, commits, calls, pc, action, current_type, dispatch_fn, transition,
          old_type, result, reading, handle, rx_lock, tag_readers>>

\* What only the facade's clones, its receiver and the reads of the tag on
\* other threads change.
api_vars == <<handle, rx_lock, tag_readers>>

\* StateManager::new(initial_state, initial_type): the pairs the callers of
\* this repository construct (api.rs:31-39, state_manager_tests.rs:23-54).
InitialStates ==
    {AwaitingInfo_initial}
    \cup {EMVPayment(PaymentInfo(F64(a), t), FALSE) : a \in 1..MaxAmount, t \in PaymentType}

\* Mutant: the tag starts at AwaitingInfo whatever initial_type is passed.
Init_TagDefaulted ==
    /\ current_state \in InitialStates
    /\ current_state_type = "AwaitingInfo"
    /\ state_guard = None
    /\ registry = None
    /\ rx_alive = TRUE
    /\ queue = <<>>
    /\ received = <<>>
    /\ commits = <<>>
    /\ calls = 0
    /\ pc = [p \in Callers |-> "idle"]
    /\ action = [p \in Callers |-> NoAction]
    /\ current_type = [p \in Callers |-> NoType]
    /\ dispatch_fn = [p \in Callers |-> None]
    /\ transition = [p \in Callers |-> None]
    /\ old_type = [p \in Callers |-> NoType]
    /\ result = [p \in Callers |-> NoResult]
    /\ reading = [p \in Callers |-> None]
    /\ handle = [p \in Callers |-> Some(NewHandle)]
    /\ rx_lock = None
    /\ tag_readers = {}

\* StateManager::new(initial_state, initial_type), before initialize_registry.
Init ==
    /\ current_state \in InitialStates
    /\ current_state_type = current_state.type
    /\ state_guard = None
    /\ registry = None
    /\ rx_alive = TRUE
    /\ queue = <<>>
    /\ received = <<>>
    /\ commits = <<>>
    /\ calls = 0
    /\ pc = [p \in Callers |-> "idle"]
    /\ action = [p \in Callers |-> NoAction]
    /\ current_type = [p \in Callers |-> NoType]
    /\ dispatch_fn = [p \in Callers |-> None]
    /\ transition = [p \in Callers |-> None]
    /\ old_type = [p \in Callers |-> NoType]
    /\ result = [p \in Callers |-> NoResult]
    /\ reading = [p \in Callers |-> None]
    /\ handle = [p \in Callers |-> Some(NewHandle)]
    /\ rx_lock = None
    /\ tag_readers = {}

\* ------------------------------------------------------------------ registry
\* initialize_registry: STATE_REGISTRY.set(registry), ignored when already set.
initialize_registry ==
    /\ registry' = IF IsSome(registry) THEN registry ELSE Some(FullRegistry)
    /\ UNCHANGED <<current_state, current_state_type, state_guard, rx_alive, queue, received,
                   commits, calls, pc, action, current_type, dispatch_fn, transition,
                   old_type, result, reading,
                   api_vars>>

\* Mutant: the entry is inserted into the table that is already there.
register_state_Inserts(state_type, f) ==
    /\ registry' = IF IsSome(registry)
                   THEN Some([t \in DOMAIN Unwrap(registry) \cup {state_type} |->
                                IF t = state_type THEN f ELSE Unwrap(registry)[t]])
                   ELSE Some([t \in {state_type} |-> f])
    /\ UNCHANGED <<current_state, current_state_type, state_guard, rx_alive, queue, received,
                   commits, calls, pc, action, current_type, dispatch_fn, transition,
                   old_type, result, reading,
                   api_vars>>

\* register_state(state_type, f): get_or_init with a map of that one entry.
register_state(state_type, f) ==
    /\ registry' = IF IsSome(registry) THEN registry ELSE Some([t \in {state_type} |-> f])
    /\ UNCHANGED <<current_state, current_state_type, state_guard, rx_alive, queue, received,
                   commits, calls, pc, action, current_type, dispatch_fn, transition,
                   old_type, result, reading,
                   api_vars>>

\* ------------------------------------------------------------------ execute
\* lines 76-80: let current_type = *self.current_state_type.read().await;
\*              let dispatch_fn = get_dispatch_fn(current_type).ok_or_else(..)?;
ExecLookup(p, a) ==
    /\ pc[p] = "idle"
    /\ calls' = calls + 1
    /\ LET f == get_dispatch_fn(registry, current_state_type) IN
         IF IsSome(f)
         THEN /\ action' = [action EXCEPT ![p] = a]
              /\ current_type' = [current_type EXCEPT ![p] = current_state_type]
              /\ dispatch_fn' = [dispatch_fn EXCEPT ![p] = f]
              /\ result' = [result EXCEPT ![p] = NoResult]
              /\ pc' = [pc EXCEPT ![p] = "acquire"]
         ELSE /\ result' = [result EXCEPT ![p] = UnregisteredState]
              /\ UNCHANGED <<action, current_type, dispatch_fn, pc>>
    /\ UNCHANGED <<current_state, current_state_type, state_guard, registry, rx_alive, queue,
                   received, commits, transition, old_type, reading,
                   api_vars>>

\* An execute call of any caller with any action, while calls are left.
ExecReadType(p, a) ==
    /\ calls < MaxCalls
    /\ ExecLookup(p, a)

\* Callers holding a read guard of current_state (get_description, line 116).
Readers == {p \in Callers : IsSome(reading[p])}

\* Mutant: the routing function runs on the value without waiting for the
\* exclusive guard of current_state.
ExecDispatch_NoExclusion(p) ==
    /\ pc[p] = "acquire"
    /\ LET t == CallDispatchFn(Unwrap(dispatch_fn[p]), current_state, action[p]) IN
         /\ current_state' = t.self
         /\ IF IsSome(t.err) \/ ~IsSome(t.next)
            THEN /\ result' = [result EXCEPT ![p] =
                                  IF IsSome(t.err) THEN Unwrap(t.err) ELSE Stay]
                 /\ pc' = [pc EXCEPT ![p] = "idle"]
                 /\ action' = [action EXCEPT ![p] = NoAction]
                 /\ current_type' = [current_type EXCEPT ![p] = NoType]
                 /\ dispatch_fn' = [dispatch_fn EXCEPT ![p] = None]
                 /\ UNCHANGED <<state_guard, transition>>
            ELSE /\ transition' = [transition EXCEPT ![p] = t.next]
                 /\ state_guard' = Some(p)
                 /\ pc' = [pc EXCEPT ![p] = "read_old"]
                 /\ UNCHANGED <<result, action, current_type, dispatch_fn>>
    /\ UNCHANGED <<current_state_type, registry, rx_alive, queue, received, commits, calls,
                   old_type, reading,
                   api_vars>>

\* lines 82-89 and 100-102: take the write guard of current_state, run the
\* routing function on the guarded value; an error or "stay" returns (the
\* guard is dropped), a transition goes on to line 91 holding the guard.
ExecDispatch(p) ==
    /\ pc[p] = "acquire"
    /\ state_guard = None
    /\ Readers = {}
    /\ LET t == CallDispatchFn(Unwrap(dispatch_fn[p]), current_state, action[p]) IN
         /\ current_state' = t.self
         /\ IF IsSome(t.err) \/ ~IsSome(t.next)
            THEN /\ result' = [result EXCEPT ![p] =
                                  IF IsSome(t.err) THEN Unwrap(t.err) ELSE Stay]
                 /\ pc' = [pc EXCEPT ![p] = "idle"]
                 /\ action' = [action EXCEPT ![p] = NoAction]
                 /\ current_type' = [current_type EXCEPT ![p] = NoType]
                 /\ dispatch_fn' = [dispatch_fn EXCEPT ![p] = None]
                 /\ UNCHANGED <<state_guard, transition>>
            ELSE /\ transition' = [transition EXCEPT ![p] = t.next]
                 /\ state_guard' = Some(p)
                 /\ pc' = [pc EXCEPT ![p] = "read_old"]
                 /\ UNCHANGED <<result, action, current_type, dispatch_fn>>
    /\ UNCHANGED <<current_state_type, registry, rx_alive, queue, received, commits, calls,
                   old_type, reading,
                   api_vars>>

\* Mutant: the event is sent as soon as the value is replaced, before the
\* tag is written.
ExecSwap_SendsEvent(p) ==
    /\ pc[p] = "read_old"
    /\ old_type' = [old_type EXCEPT ![p] = current_state_type]
    /\ current_state' = Unwrap(transition[p]).new_state
    /\ commits' = Append(commits, [from |-> current_state.type,
                                   to |-> Unwrap(transition[p]).new_state.type,
                                   tag_before |-> current_state_type])
    /\ queue' = IF rx_alive
                THEN Append(queue, StateChangeEvent(current_state_type,
                                                    Unwrap(transition[p]).new_type))
                ELSE queue
    /\ pc' = [pc EXCEPT ![p] = "write_type"]
    /\ UNCHANGED <<current_state_type, state_guard, registry, rx_alive, received, calls,
                   action, current_type, dispatch_fn, transition, result, reading,
                   api_vars>>

\* lines 91-93: let old_type = *self.current_state_type.read().await;
\*              *state_guard = new_state;
ExecSwap(p) ==
    /\ pc[p] = "read_old"
    /\ old_type' = [old_type EXCEPT ![p] = current_state_type]
    /\ current_state' = Unwrap(transition[p]).new_state
    /\ commits' = Append(commits, [from |-> current_state.type,
                                   to |-> Unwrap(transition[p]).new_state.type,
                                   tag_before |-> current_state_type])
    /\ pc' = [pc EXCEPT ![p] = "write_type"]
    /\ UNCHANGED <<current_state_type, state_guard, registry, rx_alive, queue, received, calls,
                   action, current_type, dispatch_fn, transition, result, reading,
                   api_vars>>

\* Mutant: the tag is not written after the value is replaced.
ExecWriteType_TagNotWritten(p) ==
    /\ pc[p] = "write_type"
    /\ tag_readers = {}
    /\ pc' = [pc EXCEPT ![p] = "notify"]
    /\ UNCHANGED <<current_state, current_state_type, state_guard, registry, rx_alive, queue,
                   received, commits, calls, action, current_type, dispatch_fn, transition,
                   old_type, result, reading,
                   api_vars>>

\* Mutant: the write guard of current_state is dropped before the event is sent.
ExecWriteType_GuardDropped(p) ==
    /\ pc[p] = "write_type"
    /\ tag_readers = {}
    /\ current_state_type' = Unwrap(transition[p]).new_type
    /\ state_guard' = None
    /\ pc' = [pc EXCEPT ![p] = "notify"]
    /\ UNCHANGED <<current_state, registry, rx_alive, queue, received, commits,
                   calls, action, current_type, dispatch_fn, transition, old_type, result, reading,
                   api_vars>>

\* line 94: *self.current_state_type.write().await = new_type;
ExecWriteType(p) ==
    /\ pc[p] = "write_type"
    /\ tag_readers = {}
    /\ current_state_type' = Unwrap(transition[p]).new_type
    /\ pc' = [pc EXCEPT ![p] = "notify"]
    /\ UNCHANGED <<current_state, state_guard, registry, rx_alive, queue, received, commits,
                   calls, action, current_type, dispatch_fn, transition, old_type, result, reading,
                   api_vars>>

\* Mutant: the event is built and never sent.
notify_state_change_NotSent(from_state, to_state) ==
    IF rx_alive
    THEN [queue |-> queue, err |-> None]
    ELSE [queue |-> queue, err |-> Some(NotifyFailed)]

\* notify_state_change (lines 125-137): state_sender.send(event), an error
\* when the receiver is gone.
notify_state_change(from_state, to_state) ==
    IF rx_alive
    THEN [queue |-> Append(queue, StateChangeEvent(from_state, to_state)), err |-> None]
    ELSE [queue |-> queue, err |-> Some(NotifyFailed)]

\* Mutant: notify_state_change is called with its arguments exchanged.
ExecNotify_ArgsExchanged(p) ==
    /\ pc[p] = "notify"
    /\ LET new_type == Unwrap(transition[p]).new_type
           sent     == notify_state_change(new_type, old_type[p]) IN
         /\ queue' = sent.queue
         /\ result' = [result EXCEPT ![p] =
                          IF IsSome(sent.err) THEN Unwrap(sent.err) ELSE Transitioned(new_type)]
    /\ state_guard' = None
    /\ pc' = [pc EXCEPT ![p] = "idle"]
    /\ dispatch_fn' = [dispatch_fn EXCEPT ![p] = None]
    /\ transition' = [transition EXCEPT ![p] = None]
    /\ old_type' = [old_type EXCEPT ![p] = NoType]
    /\ action' = [action EXCEPT ![p] = NoAction]
    /\ current_type' = [current_type EXCEPT ![p] = NoType]
    /\ UNCHANGED <<current_state, current_state_type, registry, rx_alive, received, commits,
                   calls, reading,
                   api_vars>>

\* Mutant: a failed send puts the old tag back before the error is returned.
ExecNotify_TagRolledBack(p) ==
    /\ pc[p] = "notify"
    /\ LET new_type == Unwrap(transition[p]).new_type
           sent     == notify_state_change(old_type[p], new_type) IN
         /\ queue' = sent.queue
         /\ result' = [result EXCEPT ![p] =
                          IF IsSome(sent.err) THEN Unwrap(sent.err) ELSE Transitioned(new_type)]
         /\ current_state_type' = IF IsSome(sent.err) THEN old_type[p] ELSE current_state_type
    /\ state_guard' = None
    /\ pc' = [pc EXCEPT ![p] = "idle"]
    /\ dispatch_fn' = [dispatch_fn EXCEPT ![p] = None]
    /\ transition' = [transition EXCEPT ![p] = None]
    /\ old_type' = [old_type EXCEPT ![p] = NoType]
    /\ action' = [action EXCEPT ![p] = NoAction]
    /\ current_type' = [current_type EXCEPT ![p] = NoType]
    /\ UNCHANGED <<current_state, registry, rx_alive, received, commits, calls, reading,
                   api_vars>>

\* Mutant: execute returns without dropping its write guard of current_state.
ExecNotify_KeepsGuard(p) ==
    /\ pc[p] = "notify"
    /\ LET new_type == Unwrap(transition[p]).new_type
           sent     == notify_state_change(old_type[p], new_type) IN
         /\ queue' = sent.queue
         /\ result' = [result EXCEPT ![p] =
                          IF IsSome(sent.err) THEN Unwrap(sent.err) ELSE Transitioned(new_type)]
    /\ state_guard' = state_guard
    /\ pc' = [pc EXCEPT ![p] = "idle"]
    /\ dispatch_fn' = [dispatch_fn EXCEPT ![p] = None]
    /\ transition' = [transition EXCEPT ![p] = None]
    /\ old_type' = [old_type EXCEPT ![p] = NoType]
    /\ action' = [action EXCEPT ![p] = NoAction]
    /\ current_type' = [current_type EXCEPT ![p] = NoType]
    /\ UNCHANGED <<current_state, current_state_type, registry, rx_alive, received, commits,
                   calls, reading,
                   api_vars>>

\* lines 97-99: self.notify_state_change(old_type, new_type).await?;
\*              Ok(format!("Transicionado para {:?}", new_type))
\* and the drop of state_guard as execute returns.
ExecNotify(p) ==
    /\ pc[p] = "notify"
    /\ LET new_type == Unwrap(transition[p]).new_type
           sent     == notify_state_change(old_type[p], new_type) IN
         /\ queue' = sent.queue
         /\ result' = [result EXCEPT ![p] =
                          IF IsSome(sent.err) THEN Unwrap(sent.err) ELSE Transitioned(new_type)]
    /\ state_guard' = None
    /\ pc' = [pc EXCEPT ![p] = "idle"]
    /\ dispatch_fn' = [dispatch_fn EXCEPT ![p] = None]
    /\ transition' = [transition EXCEPT ![p] = None]
    /\ old_type' = [old_type EXCEPT ![p] = NoType]
    /\ action' = [action EXCEPT ![p] = NoAction]
    /\ current_type' = [current_type EXCEPT ![p] = NoType]
    /\ UNCHANGED <<current_state, current_state_type, registry, rx_alive, received, commits,
                   calls, reading,
                   api_vars>>

\* ------------------------------------------------------------------ reads
\* get_current_state_type (lines 106-108).  value_type is history: the
\* concrete type of the value stored at the instant the tag is read.
get_current_state_type(p) ==
    /\ pc[p] = "idle"
    /\ result' = [result EXCEPT ![p] = [state_type |-> current_state_type,
                                        value_type |-> current_state.type]]
    /\ UNCHANGED <<current_state, current_state_type, state_guard, registry, rx_alive, queue,
                   received, commits, calls, pc, action, current_type, dispatch_fn, transition,
                   old_type, reading,
                   api_vars>>

\* ------------------------------------------------------------ get_description
\* line 116: let state_guard = self.current_state.read().await;  granted when
\* no execute call holds the write guard.
GetDescriptionRead(p, S) ==
    /\ pc[p] = "idle"
    /\ state_guard = None
    /\ reading' = [reading EXCEPT ![p] = Some(S)]
    /\ pc' = [pc EXCEPT ![p] = "describe"]
    /\ result' = [result EXCEPT ![p] = NoResult]
    /\ UNCHANGED <<current_state, current_state_type, state_guard, registry, rx_alive, queue,
                   received, commits, calls, action, current_type, dispatch_fn, transition,
                   old_type, api_vars>>

\* Mutant: the projection is applied to whatever value is stored.
GetDescriptionProject_Unchecked(p) ==
    /\ pc[p] = "describe"
    /\ result' = [result EXCEPT ![p] = Described(description(current_state))]
    /\ reading' = [reading EXCEPT ![p] = None]
    /\ pc' = [pc EXCEPT ![p] = "idle"]
    /\ UNCHANGED <<current_state, current_state_type, state_guard, registry, rx_alive, queue,
                   received, commits, calls, action, current_type, dispatch_fn, transition,
                   old_type, api_vars>>

\* lines 117-121: downcast_ref::<S>() or "Estado invalido"; Ok(getter(state))
\* with the getter the facade passes (api.rs:88-100), State::description; the
\* read guard is dropped on return.
GetDescriptionProject(p) ==
    /\ pc[p] = "describe"
    /\ result' = [result EXCEPT ![p] =
                     IF current_state.type = Unwrap(reading[p])
                     THEN Described(description(current_state))
                     ELSE StateTypeMismatch]
    /\ reading' = [reading EXCEPT ![p] = None]
    /\ pc' = [pc EXCEPT ![p] = "idle"]
    /\ UNCHANGED <<current_state, current_state_type, state_guard, registry, rx_alive, queue,
                   received, commits, calls, action, current_type, dispatch_fn, transition,
                   old_type, api_vars>>

\* ------------------------------------------------------------------ receiver
\* UnboundedReceiver::try_recv with an event queued (state_manager_tests.rs:203)
try_recv ==
    /\ rx_alive
    /\ queue # <<>>
    /\ received' = Append(received, Head(queue))
    /\ queue' = Tail(queue)
    /\ UNCHANGED <<current_state, current_state_type, state_guard, registry, rx_alive, commits,
                   calls, pc, action, current_type, dispatch_fn, transition, old_type, result, reading,
                   api_vars>>

\* The owner of the receiver returned by StateManager::new drops it.
drop_receiver ==
    /\ rx_alive
    /\ rx_alive' = FALSE
    /\ queue' = <<>>
    /\ UNCHANGED <<current_state, current_state_type, state_guard, registry, received, commits,
                   calls, pc, action, current_type, dispatch_fn, transition, old_type, result, reading,
                   api_vars>>

Next ==
    \/ initialize_registry
    \/ \E p \in Callers, a \in Actions : ExecReadType(p, a)
    \/ \E p \in Callers : ExecDispatch(p)
    \/ \E p \in Callers : ExecSwap(p)
    \/ \E p \in Callers : ExecWriteType(p)
    \/ \E p \in Callers : ExecNotify(p)
    \/ \E p \in Callers : get_current_state_type(p)
    \/ try_recv
    \/ drop_receiver

Spec == Init /\ [][Next]_vars

\* The manager as the facade and the tests build it: initialize_registry has
\* run before StateManager::new (api.rs:29-39, state_manager_tests.rs:13-34),
\* and the descriptions are read alongside the execute calls.
InitDescribe ==
    /\ current_state \in InitialStates
    /\ current_state_type = current_state.type
    /\ state_guard = None
    /\ registry = Some(FullRegistry)
    /\ rx_alive = TRUE
    /\ queue = <<>>
    /\ received = <<>>
    /\ commits = <<>>
    /\ calls = 0
    /\ pc = [p \in Callers |-> "idle"]
    /\ action = [p \in Callers |-> NoAction]
    /\ current_type = [p \in Callers |-> NoType]
    /\ dispatch_fn = [p \in Callers |-> None]
    /\ transition = [p \in Callers |-> None]
    /\ old_type = [p \in Callers |-> NoType]
    /\ result = [p \in Callers |-> NoResult]
    /\ reading = [p \in Callers |-> None]
    /\ handle = [p \in Callers |-> Some(NewHandle)]
    /\ rx_lock = None
    /\ tag_readers = {}

NextDescribe ==
    \/ \E p \in Callers, a \in Actions : ExecReadType(p, a)
    \/ \E p \in Callers : ExecDispatch(p)
    \/ \E p \in Callers : ExecSwap(p)
    \/ \E p \in Callers : ExecWriteType(p)
    \/ \E p \in Callers : ExecNotify(p)
    \/ \E p \in Callers, S \in StateType : GetDescriptionRead(p, S)
    \/ \E p \in Callers : GetDescriptionProject(p)

SpecDescribe == InitDescribe /\ [][NextDescribe]_vars

\* The manager on a registry that callers fill themselves: single entries
\* through register_state (any routing function under any tag) racing with
\* initialize_registry and with the execute calls.
NextRegister ==
    \/ initialize_registry
    \/ \E state_type \in StateType, f \in StateType : register_state(state_type, f)
    \/ \E p \in Callers, a \in Actions : ExecReadType(p, a)
    \/ \E p \in Callers : ExecDispatch(p)
    \/ \E p \in Callers : ExecSwap(p)
    \/ \E p \in Callers : ExecWriteType(p)
    \/ \E p \in Callers : ExecNotify(p)

SpecRegister == Init /\ [][NextRegister]_vars

\* ------------------------------------------------------------------- threads
\* get_current_state_type on another worker thread (lines 106-108), in the
\* two halves other threads can see: the read guard of current_state_type is
\* taken; the tag is copied out and the guard dropped.
CurrentTypeRead(p) ==
    /\ pc[p] = "idle"
    /\ tag_readers' = tag_readers \cup {p}
    /\ pc' = [pc EXCEPT ![p] = "tag_read"]
    /\ result' = [result EXCEPT ![p] = NoResult]
    /\ UNCHANGED <<current_state, current_state_type, state_guard, registry, rx_alive, queue,
                   received, commits, calls, action, current_type, dispatch_fn, transition,
                   old_type, reading, handle, rx_lock>>


\* Mutant: the read answers with the concrete type of the stored value
\* instead of the tag.
CurrentTypeReturn_ReadsValue(p) ==
    /\ pc[p] = "tag_read"
    /\ result' = [result EXCEPT ![p] = [state_type |-> current_state.type,
                                        value_type |-> current_state.type]]
    /\ tag_readers' = tag_readers \ {p}
    /\ pc' = [pc EXCEPT ![p] = "idle"]
    /\ UNCHANGED <<current_state, current_state_type, state_guard, registry, rx_alive, queue,
                   received, commits, calls, action, current_type, dispatch_fn, transition,
                   old_type, reading, handle, rx_lock>>

CurrentTypeReturn(p) ==
    /\ pc[p] = "tag_read"
    /\ result' = [result EXCEPT ![p] = [state_type |-> current_state_type,
                                        value_type |-> current_state.type]]
    /\ tag_readers' = tag_readers \ {p}
    /\ pc' = [pc EXCEPT ![p] = "idle"]
    /\ UNCHANGED <<current_state, current_state_type, state_guard, registry, rx_alive, queue,
                   received, commits, calls, action, current_type, dispatch_fn, transition,
                   old_type, reading, handle, rx_lock>>

\* The manager on a multi-threaded runtime: the execute calls and the reads
\* of the tag run on different worker threads.
NextThreads ==
    \/ initialize_registry
    \/ \E p \in Callers, a \in Actions : ExecReadType(p, a)
    \/ \E p \in Callers : ExecDispatch(p)
    \/ \E p \in Callers : ExecSwap(p)
    \/ \E p \in Callers : ExecWriteType(p)
    \/ \E p \in Callers : ExecNotify(p)
    \/ \E p \in Callers : CurrentTypeRead(p)
    \/ \E p \in Callers : CurrentTypeReturn(p)

SpecThreads == Init /\ [][NextThreads]_vars

\* -------------------------------------------------------------------- facade
\* Mutant: the clone gets Arcs of its own around copies of the value and tag.
Clone_CopiesState(self) ==
    [current_state       |-> "clone",
     current_state_type  |-> "clone",
     state_sender        |-> self.state_sender,
     event_receiver      |-> self.event_receiver]

\* impl Clone for StateManager (Arc::clone of each field, the sender cloned)
\* and #[derive(Clone)] of PaymentStateApi (manager.clone(), Arc::clone of
\* the receiver's Mutex).
Clone(self) ==
    [current_state       |-> self.current_state,
     current_state_type  |-> self.current_state_type,
     state_sender        |-> self.state_sender,
     event_receiver      |-> self.event_receiver]

\* The budget of execute calls of the facade: PaymentStateApi::new seeds the
\* empty AwaitingInfo, from which a second event takes one call more than
\* the first (SetAmount, SetPaymentType, ConfirmInfo, CancelPayment).
MaxApiCalls == MaxCalls + 1

\* PaymentStateApi::new (api.rs:27-45): the registry initialized, the empty
\* AwaitingInfo stored, one handle, whose owner clones it for the others.
InitApi ==
    /\ current_state = AwaitingInfo(None, None)
    /\ current_state_type = "AwaitingInfo"
    /\ state_guard = None
    /\ registry = Some(FullRegistry)
    /\ rx_alive = TRUE
    /\ queue = <<>>
    /\ received = <<>>
    /\ commits = <<>>
    /\ calls = 0
    /\ pc = [p \in Callers |-> "idle"]
    /\ action = [p \in Callers |-> NoAction]
    /\ current_type = [p \in Callers |-> NoType]
    /\ dispatch_fn = [p \in Callers |-> None]
    /\ transition = [p \in Callers |-> None]
    /\ old_type = [p \in Callers |-> NoType]
    /\ result = [p \in Callers |-> NoResult]
    /\ reading = [p \in Callers |-> None]
    /\ handle \in {h \in [Callers -> {None, Some(NewHandle)}] :
                      Cardinality({p \in Callers : IsSome(h[p])}) = 1}
    /\ rx_lock = None
    /\ tag_readers = {}

\* api.clone() by the owner of a handle, for a caller that has none yet.
ApiClone(p, q) ==
    /\ pc[p] = "idle"
    /\ IsSome(handle[p])
    /\ ~IsSome(handle[q])
    /\ handle' = [handle EXCEPT ![q] = Some(Clone(Unwrap(handle[p])))]
    /\ UNCHANGED <<current_state, current_state_type, state_guard, registry, rx_alive, queue,
                   received, commits, calls, pc, action, current_type, dispatch_fn, transition,
                   old_type, result, reading, rx_lock, tag_readers>>

\* Callers inside StateManager::execute.
InExecute == {p \in Callers : pc[p] \in {"acquire", "read_old", "write_type", "notify"}}

\* api.execute(action) (api.rs:54-59), one call after the other through any
\* of the clones.
ApiExecute(p, a) ==
    /\ IsSome(handle[p])
    /\ InExecute = {}
    /\ calls < MaxApiCalls
    /\ ExecLookup(p, a)

\* api.current_state() (api.rs:62-64).
ApiCurrentState(p) ==
    /\ IsSome(handle[p])
    /\ get_current_state_type(p)

\* next_event (api.rs:69-71): self.event_receiver.lock().await, granted when
\* the Mutex is free; the guard lives to the end of the statement.
NextEventLock(p) ==
    /\ pc[p] = "idle"
    /\ IsSome(handle[p])
    /\ rx_lock = None
    /\ rx_lock' = Some(p)
    /\ pc' = [pc EXCEPT ![p] = "recv"]
    /\ result' = [result EXCEPT ![p] = NoResult]
    /\ UNCHANGED <<current_state, current_state_type, state_guard, registry, rx_alive, queue,
                   received, commits, calls, action, current_type, dispatch_fn, transition,
                   old_type, reading, handle, tag_readers>>

\* Mutant: the event is handed out and left at the head of the queue.
NextEventRecv_LeavesEvent(p) ==
    /\ pc[p] = "recv"
    /\ rx_lock = Some(p)
    /\ queue # <<>>
    /\ result' = [result EXCEPT ![p] = [event |-> Some(Head(queue))]]
    /\ received' = Append(received, Head(queue))
    /\ rx_lock' = None
    /\ pc' = [pc EXCEPT ![p] = "idle"]
    /\ UNCHANGED <<current_state, current_state_type, state_guard, registry, rx_alive, queue,
                   commits, calls, action, current_type, dispatch_fn, transition,
                   old_type, reading, handle, tag_readers>>

\* next_event: .recv().await completes once an event is queued (the senders
\* live in the manager the facade itself holds, so the channel stays open);
\* the Mutex guard is dropped with the return.
NextEventRecv(p) ==
    /\ pc[p] = "recv"
    /\ rx_lock = Some(p)
    /\ queue # <<>>
    /\ result' = [result EXCEPT ![p] = [event |-> Some(Head(queue))]]
    /\ received' = Append(received, Head(queue))
    /\ queue' = Tail(queue)
    /\ rx_lock' = None
    /\ pc' = [pc EXCEPT ![p] = "idle"]
    /\ UNCHANGED <<current_state, current_state_type, state_guard, registry, rx_alive,
                   commits, calls, action, current_type, dispatch_fn, transition,
                   old_type, reading, handle, tag_readers>>

\* try_next_event is called (api.rs:78): it asks for the receiver's Mutex.
TryNextEventCall(p) ==
    /\ pc[p] = "idle"
    /\ IsSome(handle[p])
    /\ pc' = [pc EXCEPT ![p] = "try_lock"]
    /\ result' = [result EXCEPT ![p] = NoResult]
    /\ UNCHANGED <<current_state, current_state_type, state_guard, registry, rx_alive, queue,
                   received, commits, calls, action, current_type, dispatch_fn, transition,
                   old_type, reading, handle, rx_lock, tag_readers>>

\* try_next_event, lines 78-84: the Mutex is granted, try_recv() takes the
\* oldest event or finds none (Ok(None)), the guard is dropped.
TryNextEventRecv(p) ==
    /\ pc[p] = "try_lock"
    /\ rx_lock = None
    /\ IF queue # <<>>
       THEN /\ result' = [result EXCEPT ![p] = [ok |-> TRUE, event |-> Some(Head(queue))]]
            /\ received' = Append(received, Head(queue))
            /\ queue' = Tail(queue)
       ELSE /\ result' = [result EXCEPT ![p] = [ok |-> TRUE, event |-> None]]
            /\ UNCHANGED <<received, queue>>
    /\ pc' = [pc EXCEPT ![p] = "idle"]
    /\ UNCHANGED <<current_state, current_state_type, state_guard, registry, rx_alive,
                   commits, calls, action, current_type, dispatch_fn, transition,
                   old_type, reading, handle, rx_lock, tag_readers>>

NextApi ==
    \/ \E p, q \in Callers : ApiClone(p, q)
    \/ \E p \in Callers, a \in Actions : ApiExecute(p, a)
    \/ \E p \in Callers : ExecDispatch(p)
    \/ \E p \in Callers : ExecSwap(p)
    \/ \E p \in Callers : ExecWriteType(p)
    \/ \E p \in Callers : ExecNotify(p)
    \/ \E p \in Callers : ApiCurrentState(p)
    \/ \E p \in Callers : NextEventLock(p)
    \/ \E p \in Callers : NextEventRecv(p)
    \/ \E p \in Callers : TryNextEventCall(p)
    \/ \E p \in Callers : TryNextEventRecv(p)

SpecApi == InitApi /\ [][NextApi]_vars

\* test_api_concurrent_access (api.rs:184-201): tasks spawned on clones of
\* one facade each call SetAmount with a positive amount of their own
\* ((i * 10 + 100) for task i; here one of as many amounts as callers).
SpawnedAmounts == {F64(n) : n \in 1..NumCallers}

SpawnSetAmount(p, amount) ==
    /\ IsSome(handle[p])
    /\ calls < MaxApiCalls
    /\ ExecLookup(p, [type |-> "AwaitingInfoAction", name |-> "SetAmount", amount |-> amount])

NextConcurrent ==
    \/ \E p, q \in Callers : ApiClone(p, q)
    \/ \E p \in Callers, amount \in SpawnedAmounts : SpawnSetAmount(p, amount)
    \/ \E p \in Callers : ExecDispatch(p)

SpecConcurrent == InitApi /\ [][NextConcurrent]_vars

\* The sequential run of test_full_payment_flow and
\* test_api_complete_payment_cycle: the k-th call is taken from the k-th entry
\* of the script and is made when no call is in flight; the tag is read and
\* the events are received between the calls.
FlowScript ==
    << {a \in AwaitingInfoAction : a.name = "SetAmount" /\ f64_gt(a.amount, F64(0))},
       {a \in AwaitingInfoAction : a.name = "SetPaymentType"},
       {a \in AwaitingInfoAction : a.name = "ConfirmInfo"},
       {a \in EmvPaymentAction : a.name = "ProcessPayment"},
       {a \in EmvPaymentAction : a.name = "CompletePayment"} >>

AllReturned == \A q \in Callers : pc[q] = "idle"

InitFlow ==
    /\ InitDescribe
    /\ current_state = AwaitingInfo_initial

FlowCall(p, a) ==
    /\ AllReturned
    /\ calls < Len(FlowScript)
    /\ a \in FlowScript[calls + 1]
    /\ ExecLookup(p, a)

FlowRead(p) ==
    /\ AllReturned
    /\ get_current_state_type(p)

NextFlow ==
    \/ \E p \in Callers, a \in Actions : FlowCall(p, a)
    \/ \E p \in Callers : ExecDispatch(p)
    \/ \E p \in Callers : ExecSwap(p)
    \/ \E p \in Callers : ExecWriteType(p)
    \/ \E p \in Callers : ExecNotify(p)
    \/ \E p \in Callers : FlowRead(p)
    \/ try_recv

SpecFlow == InitFlow /\ [][NextFlow]_vars


\* ----------------------------------------------------------- before new()
\* The process before PaymentStateApi::new has run: STATE_REGISTRY is unset
\* and nobody holds a facade; the manager's fields are there to be filled by
\* new().
InitBeforeNew ==
    /\ current_state = AwaitingInfo(None, None)
    /\ current_state_type = "AwaitingInfo"
    /\ state_guard = None
    /\ registry = None
    /\ rx_alive = TRUE
    /\ queue = <<>>
    /\ received = <<>>
    /\ commits = <<>>
    /\ calls = 0
    /\ pc = [p \in Callers |-> "idle"]
    /\ action = [p \in Callers |-> NoAction]
    /\ current_type = [p \in Callers |-> NoType]
    /\ dispatch_fn = [p \in Callers |-> None]
    /\ transition = [p \in Callers |-> None]
    /\ old_type = [p \in Callers |-> NoType]
    /\ result = [p \in Callers |-> NoResult]
    /\ reading = [p \in Callers |-> None]
    /\ handle = [p \in Callers |-> None]
    /\ rx_lock = None
    /\ tag_readers = {}

\* PaymentStateApi::new (api.rs:27-45) by caller p: initialize_registry()
\* (line 29: STATE_REGISTRY.set, ignored when the cell is already set), then
\* the empty AwaitingInfo under the tag AwaitingInfo and a fresh channel.
PaymentStateApi_new(p) ==
    /\ \A q \in Callers : ~IsSome(handle[q])
    /\ registry' = IF IsSome(registry) THEN registry ELSE Some(FullRegistry)
    /\ current_state' = AwaitingInfo(None, None)
    /\ current_state_type' = "AwaitingInfo"
    /\ queue' = <<>>
    /\ received' = <<>>
    /\ rx_alive' = TRUE
    /\ handle' = [handle EXCEPT ![p] = Some(NewHandle)]
    /\ UNCHANGED <<state_guard, commits, calls, pc, action, current_type, dispatch_fn,
                   transition, old_type, result, reading, rx_lock, tag_readers>>

\* Registry calls made before new(), then the facade in use.
NextNew ==
    \/ \E state_type \in StateType, f \in StateType : register_state(state_type, f)
    \/ \E p \in Callers : PaymentStateApi_new(p)
    \/ \E p, q \in Callers : ApiClone(p, q)
    \/ \E p \in Callers, a \in Actions : ApiExecute(p, a)
    \/ \E p \in Callers : ExecDispatch(p)
    \/ \E p \in Callers : ExecSwap(p)
    \/ \E p \in Callers : ExecWriteType(p)
    \/ \E p \in Callers : ExecNotify(p)

SpecNew == InitBeforeNew /\ [][NextNew]_vars


\* ------------------------------------------------------------------- readers
\* The two read operations (state_manager.rs:105-122) running on clones of
\* one manager (test_concurrent_state_reads) alongside execute calls that are
\* made one after the other.
ReadsExecute(p, a) ==
    /\ InExecute = {}
    /\ ExecReadType(p, a)

NextReads ==
    \/ \E p \in Callers, a \in Actions : ReadsExecute(p, a)
    \/ \E p \in Callers : ExecDispatch(p)
    \/ \E p \in Callers : ExecSwap(p)
    \/ \E p \in Callers : ExecWriteType(p)
    \/ \E p \in Callers : ExecNotify(p)
    \/ \E p \in Callers : CurrentTypeRead(p)
    \/ \E p \in Callers : CurrentTypeReturn(p)
    \/ \E p \in Callers, S \in StateType : GetDescriptionRead(p, S)
    \/ \E p \in Callers : GetDescriptionProject(p)

SpecReads == InitDescribe /\ [][NextReads]_vars


\* --------------------------------------------------------------- long runs
\* Runs as long as two rounds of calls, made one after the other on the
\* manager of create_awaiting_info_manager: long enough to fill in the
\* payment data more than once, confirm, process and complete
\* (test_full_payment_flow with any action at any step).
MaxCarryCalls == MaxCalls + MaxCalls

\* The amounts SetAmount is called with in these runs: the rejected ones and
\* at least two accepted ones, so that an amount already set is set again to
\* a different value.
CarryAmounts == Amounts \cup {F64(n) : n \in 1..(MaxAmount + 1)}
CarryActions ==
    Actions \cup [type : {"AwaitingInfoAction"}, name : {"SetAmount"}, amount : CarryAmounts]

CarryCall(p, a) ==
    /\ AllReturned
    /\ calls < MaxCarryCalls
    /\ ExecLookup(p, a)

NextCarry ==
    \/ \E p \in Callers, a \in CarryActions : CarryCall(p, a)
    \/ \E p \in Callers : ExecDispatch(p)
    \/ \E p \in Callers : ExecSwap(p)
    \/ \E p \in Callers : ExecWriteType(p)
    \/ \E p \in Callers : ExecNotify(p)

SpecCarry == InitFlow /\ [][NextCarry]_vars


\* ------------------------------------------------------------------ fairness
\* execute, get_current_state_type and get_description called concurrently
\* on clones of the manager of create_emv_payment_manager(1.0, Debit) (the
\* payment data play no part in the locking), with the actions
\* of that state: ProcessPayment stays, CompletePayment fails or moves on,
\* CancelPayment moves back, and each of them is refused once the state has
\* changed under a call that read the tag earlier.
InitLive ==
    /\ InitDescribe
    /\ current_state = EMVPayment(PaymentInfo(F64(1), "Debit"), FALSE)

NextLive ==
    \/ \E p \in Callers, a \in EmvPaymentAction : ExecReadType(p, a)
    \/ \E p \in Callers : ExecDispatch(p)
    \/ \E p \in Callers : ExecSwap(p)
    \/ \E p \in Callers : ExecWriteType(p)
    \/ \E p \in Callers : ExecNotify(p)
    \/ \E p \in Callers : CurrentTypeRead(p)
    \/ \E p \in Callers : CurrentTypeReturn(p)
    \/ \E p \in Callers : GetDescriptionRead(p, "EMVPayment")
    \/ \E p \in Callers : GetDescriptionProject(p)

\* tokio's RwLock serves its waiters in FIFO order: a caller queued for a
\* write guard (lines 82 and 94) gets it if the lock is free again and
\* again; every other step is a task the runtime keeps polling.
FairLive ==
    \A p \in Callers :
        /\ SF_vars(ExecDispatch(p))
        /\ SF_vars(ExecWriteType(p))
        /\ WF_vars(ExecSwap(p))
        /\ WF_vars(ExecNotify(p))
        /\ WF_vars(CurrentTypeReturn(p))
        /\ WF_vars(GetDescriptionProject(p))

SpecLive == InitLive /\ [][NextLive]_vars /\ FairLive


\* -------------------------------------------------------------- abandonment
\* The caller drops the future of execute (an external deadline fires) while
\* the call is Pending at one of its awaits on a lock: line 82
\* (current_state.write()), line 91 (current_state_type.read()) or line 94
\* (current_state_type.write()).  A call can be Pending there with the lock
\* held by another caller, with the lock just handed over, or with the lock
\* free and the task's cooperative budget spent.  The drop releases the
\* guards the future holds and runs none of the statements that were still
\* to come; the caller gets no result from execute.
Abandoned == [abandoned |-> TRUE]

ExecAbandon(p) ==
    /\ pc[p] \in {"acquire", "read_old", "write_type"}
    /\ state_guard' = IF state_guard = Some(p) THEN None ELSE state_guard
    /\ result' = [result EXCEPT ![p] = Abandoned]
    /\ pc' = [pc EXCEPT ![p] = "idle"]
    /\ action' = [action EXCEPT ![p] = NoAction]
    /\ current_type' = [current_type EXCEPT ![p] = NoType]
    /\ dispatch_fn' = [dispatch_fn EXCEPT ![p] = None]
    /\ transition' = [transition EXCEPT ![p] = None]
    /\ old_type' = [old_type EXCEPT ![p] = NoType]
    /\ UNCHANGED <<current_state, current_state_type, registry, rx_alive, queue, received,
                   commits, calls, reading, api_vars>>

NextAbandon ==
    \/ initialize_registry
    \/ \E p \in Callers, a \in Actions : ExecReadType(p, a)
    \/ \E p \in Callers : ExecDispatch(p)
    \/ \E p \in Callers : ExecSwap(p)
    \/ \E p \in Callers : ExecWriteType(p)
    \/ \E p \in Callers : ExecNotify(p)
    \/ \E p \in Callers : CurrentTypeRead(p)
    \/ \E p \in Callers : CurrentTypeReturn(p)
    \/ \E p \in Callers : ExecAbandon(p)

SpecAbandon == Init /\ [][NextAbandon]_vars


\* ------------------------------------------------------- concurrent confirm
\* Tasks on clones of one manager all submit ConfirmInfo to an AwaitingInfo
\* whose amount and payment type have been set; the receiver takes the
\* events as they come.
InitConfirm ==
    /\ current_state \in {AwaitingInfo(Some(F64(amount)), Some(payment_type)) :
                              amount \in 1..MaxAmount, payment_type \in PaymentType}
    /\ current_state_type = "AwaitingInfo"
    /\ state_guard = None
    /\ registry = Some(FullRegistry)
    /\ rx_alive = TRUE
    /\ queue = <<>>
    /\ received = <<>>
    /\ commits = <<>>
    /\ calls = 0
    /\ pc = [p \in Callers |-> "idle"]
    /\ action = [p \in Callers |-> NoAction]
    /\ current_type = [p \in Callers |-> NoType]
    /\ dispatch_fn = [p \in Callers |-> None]
    /\ transition = [p \in Callers |-> None]
    /\ old_type = [p \in Callers |-> NoType]
    /\ result = [p \in Callers |-> NoResult]
    /\ reading = [p \in Callers |-> None]
    /\ handle = [p \in Callers |-> Some(NewHandle)]
    /\ rx_lock = None
    /\ tag_readers = {}

SpawnConfirmInfo(p) ==
    ExecReadType(p, [type |-> "AwaitingInfoAction", name |-> "ConfirmInfo"])

NextConfirm ==
    \/ \E p \in Callers : SpawnConfirmInfo(p)
    \/ \E p \in Callers : ExecDispatch(p)
    \/ \E p \in Callers : ExecSwap(p)
    \/ \E p \in Callers : ExecWriteType(p)
    \/ \E p \in Callers : ExecNotify(p)
    \/ try_recv

SpecConfirm == InitConfirm /\ [][NextConfirm]_vars

\* ------------------------------------------------------------------ claims
Last(seq) == seq[Len(seq)]
\* The events the receiver has taken or can still take, oldest first.
Delivered == received \o queue
\* The committed replacements as events, in commit order.
CommitEvents ==
    [i \in 1..Len(commits) |-> StateChangeEvent(commits[i].from, commits[i].to)]
\* Callers that have replaced the value and not yet sent their event.
Unsent == {p \in Callers : pc[p] \in {"write_type", "notify"}}
\* The action type each tag's handler accepts (registry.rs lines 43, 52, 61).
Accepts(t) ==
    CASE t = "AwaitingInfo"   -> "AwaitingInfoAction"
      [] t = "EMVPayment"     -> "EmvPaymentAction"
      [] t = "PaymentSuccess" -> "PaymentSuccessAction"
IsErr(r)     == "ok" \in DOMAIN r /\ ~r.ok
IsReadOf(r)  == "state_type" \in DOMAIN r
\* Caller p's Dispatch step (lines 82-89), and its return from Notify.
DispatchStep(p) == pc[p] = "acquire" /\ pc'[p] # "acquire"
NotifyStep(p)   == pc[p] = "notify" /\ pc'[p] = "idle"

\* C1: in every reachable state, also in the middle of a transitioning
\* execute call, the tag matches the concrete type of the stored value, and
\* every tag returned by get_current_state_type matched the value stored at
\* the instant it was read.
C1_TagMatchesStoredValue ==
    /\ current_state_type = current_state.type
    /\ \A p \in Callers : IsReadOf(result[p]) => result[p].state_type = result[p].value_type

\* C2: once every execute call has returned, the tag equals the tag of the
\* concrete type of the stored value, whatever the interleaving was.
C2_FinalTagMatchesValue ==
    (\A p \in Callers : pc[p] = "idle") => current_state_type = current_state.type

\* C2 witness: two callers have both returned from transitioning calls.
C2_Witness ==
    /\ \A p \in Callers : pc[p] = "idle"
    /\ \E p, q \in Callers :
         /\ p # q
         /\ result[p] = Transitioned("PaymentSuccess")
         /\ result[q] = Transitioned("AwaitingInfo")

\* C3: with a live receiver, the events taken and waiting in the channel are
\* exactly the committed replacements in commit order, up to the one commit
\* whose event is not yet sent: nothing lost, duplicated or reordered.
C3_EventsInCommitOrder ==
    rx_alive =>
        /\ Cardinality(Unsent) <= Len(commits)
        /\ Delivered = SubSeq(CommitEvents, 1, Len(commits) - Cardinality(Unsent))

\* C3 witness: two commits, the first event taken, the second one queued.
C3_Witness ==
    /\ rx_alive
    /\ Len(commits) = 2
    /\ Len(received) = 1
    /\ Len(queue) = 1
    /\ received[1].to_state = queue[1].from_state

\* C4: with a live receiver and no call between its swap and its send, the
\* number of events ever enqueued equals the number of replacements.
C4_OneEventPerReplacement ==
    (rx_alive /\ Unsent = {}) => Len(received) + Len(queue) = Len(commits)

\* C4 witness: two replacements have been made and two events enqueued.
C4_Witness ==
    rx_alive /\ Unsent = {} /\ Len(commits) = 2 /\ Len(queue) = 2

\* C5: a call whose action makes the state stay, or that fails before a
\* swap, returns from its dispatch (or from its lookup) without enqueuing an
\* event, without a replacement and with the tag unchanged.
C5_NoTransitionSilence ==
    [][\A p \in Callers :
         ( \/ /\ DispatchStep(p)
              /\ \/ action[p].name \in {"SetAmount", "SetPaymentType", "ProcessPayment"}
                 \/ IsErr(result'[p])
           \/ /\ pc[p] = "idle"
              /\ calls' = calls + 1
              /\ result'[p] = UnregisteredState
              /\ pc'[p] = "idle" )
         => /\ pc'[p] = "idle"
            /\ queue' = queue
            /\ received' = received
            /\ commits' = commits
            /\ current_state_type' = current_state_type]_vars

\* C5 witness: SetAmount has returned "stay" and the amount is stored.
C5_Witness ==
    \E p \in Callers :
        /\ pc[p] = "idle"
        /\ result[p] = Stay
        /\ current_state.type = "AwaitingInfo"
        /\ IsSome(current_state.amount)
        /\ Delivered = <<>>

\* C6: the event a call emits has from_state equal to the tag the call read
\* at line 76, to the tag stored when the call replaced the value and to the
\* concrete type it replaced, and to_state equal to the tag the transition
\* returned, which is the tag now stored.
C6_EventFromAndTo ==
    [][\A p \in Callers :
         (NotifyStep(p) /\ rx_alive)
         => /\ Len(queue') = Len(queue) + 1
            /\ Last(queue').from_state = current_type[p]
            /\ Last(queue').from_state = Last(commits).tag_before
            /\ Last(queue').from_state = Last(commits).from
            /\ Last(queue').to_state = Unwrap(transition[p]).new_type
            /\ Last(queue').to_state = current_state_type
            /\ Last(queue').to_state = current_state.type]_vars

\* C6 witness: a call that waited for the value lock behind another
\* transition has emitted its event.
C6_Witness ==
    /\ Len(commits) = 2
    /\ Len(queue) = 2
    /\ \E p \in Callers : pc[p] = "idle" /\ result[p] = Transitioned("AwaitingInfo")

\* C7: with the receiver dropped, a transitioning execute call still returns
\* success: no call returns the failure to publish.
C7_PublishFailureNotReturned ==
    \A p \in Callers : result[p] # NotifyFailed

\* C8: when publishing fails for want of a receiver, the call returns with
\* the stored value and the tag being the successor pair of its transition.
C8_NoRollback ==
    [][\A p \in Callers :
         (NotifyStep(p) /\ ~rx_alive)
         => /\ current_state' = Unwrap(transition[p]).new_state
            /\ current_state_type' = Unwrap(transition[p]).new_type
            /\ current_state_type' = current_state'.type]_vars

\* C8 witness: a call has returned the publish failure after its commit.
C8_Witness ==
    \E p \in Callers :
        /\ pc[p] = "idle"
        /\ result[p] = NotifyFailed
        /\ ~rx_alive
        /\ Len(commits) >= 1

\* C9: a call dispatched while X is the tag it read, the tag stored and the
\* type of the stored value, through the handler initialize_registry maps X
\* to, with an action of a type that handler does not accept, returns
\* IncompatibleAction and leaves the tag, the value and the events unchanged.
C9_WrongActionRejected ==
    [][\A p \in Callers :
         ( /\ DispatchStep(p)
           /\ current_type[p] = current_state_type
           /\ current_type[p] = current_state.type
           /\ dispatch_fn[p] = get_dispatch_fn(Some(FullRegistry), current_type[p])
           /\ action[p].type # Accepts(current_type[p]) )
         => /\ pc'[p] = "idle"
            /\ result'[p] = IncompatibleAction
            /\ current_state' = current_state
            /\ current_state_type' = current_state_type
            /\ queue' = queue
            /\ received' = received
            /\ commits' = commits]_vars

\* C9 witness: an action of another state's type was rejected in
\* PaymentSuccess, after a transition into it.
C9_Witness ==
    \E p \in Callers :
        /\ pc[p] = "idle"
        /\ result[p] = IncompatibleAction
        /\ current_state_type = "PaymentSuccess"
        /\ current_state.type = "PaymentSuccess"

\* C10: with the registry set by initialize_registry and a matching initial
\* pair, no execute call returns StateTypeMismatch.
C10_NoStateTypeMismatch ==
    \A p \in Callers : result[p] # StateTypeMismatch

\* ExecReadType is the only step that counts a call: lines 76-80 of execute.
ReadTypeStep == calls' = calls + 1

\* C11: when the registry holds no entry for the current tag, because it was
\* never set or because it was populated without that tag, execute returns
\* UnregisteredState at lines 79-80: the caller is back with that error, no
\* caller proceeds to the routing function, and the tag, the stored value,
\* the queued and received events and the replacements are unchanged.
C11_UnregisteredStateReturned ==
    [][( /\ ReadTypeStep
         /\ (~IsSome(registry) \/ current_state_type \notin DOMAIN Unwrap(registry)) )
       => /\ \E p \in Callers :
                /\ pc[p] = "idle"
                /\ result' = [result EXCEPT ![p] = UnregisteredState]
          /\ pc' = pc
          /\ dispatch_fn' = dispatch_fn
          /\ state_guard' = state_guard
          /\ current_state' = current_state
          /\ current_state_type' = current_state_type
          /\ queue' = queue
          /\ received' = received
          /\ commits' = commits]_vars

\* C11 witness: a call was answered UnregisteredState by a registry that is
\* populated, but without the current tag.
C11_Witness ==
    \E p \in Callers :
        /\ pc[p] = "idle"
        /\ result[p] = UnregisteredState
        /\ IsSome(registry)
        /\ current_state_type \notin DOMAIN Unwrap(registry)
        /\ current_state.type = current_state_type

\* Callers between the grant of the write guard (line 82) and their return,
\* seen between two steps: those on the transition path of lines 89-99.
Writers == {p \in Callers : pc[p] \in {"read_old", "write_type", "notify"}}

\* C12: access to the stored value is serialized: at most one execute call is
\* between acquiring the write guard of current_state and returning, that
\* call is the holder of the guard, and no get_description call holds the
\* read guard (runs its projection) while an execute call holds the write
\* guard.
C12_MutationSerialized ==
    /\ Cardinality(Writers) <= 1
    /\ Writers = {p \in Callers : state_guard = Some(p)}
    /\ (Writers # {} => Readers = {})

\* C12 witness: one call is on its transition path holding the guard while
\* another call, already past its tag read, waits for the guard.
C12_Witness ==
    \E p, q \in Callers :
        /\ p # q
        /\ pc[p] = "write_type"
        /\ state_guard = Some(p)
        /\ pc[q] = "acquire"

\* A value of each concrete type, to probe a routing function with.
SampleState(t) ==
    CASE t = "AwaitingInfo"   -> AwaitingInfo_initial
      [] t = "EMVPayment"     ->
           EMVPayment(PaymentInfo(F64(MaxAmount), CHOOSE k \in PaymentType : TRUE), FALSE)
      [] t = "PaymentSuccess" ->
           PaymentSuccess(PaymentInfo(F64(MaxAmount), CHOOSE k \in PaymentType : TRUE))
\* The table reg maps every tag to that tag's own handler: the routing
\* function found under t accepts a value of type t and rejects an action
\* exactly when it is not of the type t's state takes.
RoutesEachTagToItsHandler(reg) ==
    /\ DOMAIN reg = StateType
    /\ \A t \in StateType, a \in Actions :
          LET r == CallDispatchFn(reg[t], SampleState(t), a) IN
            /\ r.err # Some(StateTypeMismatch)
            /\ (r.err = Some(IncompatibleAction)) <=> (a.type # Accepts(t))

\* C13: however many times initialize_registry runs, and in whatever order
\* with the execute calls, the only change it makes to STATE_REGISTRY is to
\* set the empty one to a table mapping each of the three tags to its own
\* handler, and once set every lookup keeps returning the same routing
\* function.
C13_InitializeRegistryIdempotent ==
    [][ /\ registry' # registry =>
              (IsSome(registry') /\ RoutesEachTagToItsHandler(Unwrap(registry')))
        /\ IsSome(registry) =>
              \A t \in StateType :
                 get_dispatch_fn(registry', t) = get_dispatch_fn(registry, t) ]_vars

\* C13 witness: the registry is set, and calls routed through it have
\* replaced the value and have been carried out in place.
C13_Witness ==
    /\ IsSome(registry)
    /\ commits # <<>>
    /\ \E p \in Callers : pc[p] = "idle" /\ result[p] = Stay

\* C14: the registry is write-once: after the first register_state or
\* initialize_registry call has populated it, no step adds, removes or
\* overwrites an entry, so get_dispatch_fn returns for every tag what it
\* returned before.
C14_RegistryWriteOnce ==
    [][IsSome(registry) =>
         /\ IsSome(registry')
         /\ DOMAIN Unwrap(registry') = DOMAIN Unwrap(registry)
         /\ \A t \in StateType :
               get_dispatch_fn(registry', t) = get_dispatch_fn(registry, t)]_vars

\* C14 witness: the table holds the single entry a register_state call put
\* there, all calls are spent, and calls were both answered UnregisteredState
\* and carried out.
C14_Witness ==
    /\ IsSome(registry)
    /\ Cardinality(DOMAIN Unwrap(registry)) = 1
    /\ calls = MaxCalls
    /\ \E p \in Callers : result[p] = UnregisteredState
    /\ \E p \in Callers : result[p] = Stay

\* Caller p's Dispatch step runs action `name` of the state of type t on a
\* stored value of that type, through the routing function of t.
Dispatches(p, t, name) ==
    /\ DispatchStep(p)
    /\ current_state.type = t
    /\ dispatch_fn[p] = Some(t)
    /\ action[p].type = Accepts(t)
    /\ action[p].name = name
\* The call returns from its Dispatch step with r, and the stored value, the
\* tag, the events and the replacements are as before.
RejectedWith(p, r) ==
    /\ pc'[p] = "idle"
    /\ result'[p] = r
    /\ current_state' = current_state
    /\ current_state_type' = current_state_type
    /\ queue' = queue
    /\ received' = received
    /\ commits' = commits

\* C15: in AwaitingInfo, SetAmount with an amount <= 0 returns the validation
\* error InvalidAmount; the tag stays, the stored amount and payment type are
\* what they were, and no event is queued.
C15_NonPositiveAmountRejected ==
    [][\A p \in Callers :
         (Dispatches(p, "AwaitingInfo", "SetAmount") /\ f64_le(action[p].amount, F64(0)))
         => RejectedWith(p, InvalidAmount)]_vars

\* C15 witness: a SetAmount was rejected while an amount set earlier and no
\* payment type are stored, with the tag at AwaitingInfo and no event queued.
C15_Witness ==
    \E p \in Callers :
        /\ pc[p] = "idle"
        /\ result[p] = InvalidAmount
        /\ current_state = AwaitingInfo(Some(F64(MaxAmount)), None)
        /\ current_state_type = "AwaitingInfo"
        /\ calls = 2
        /\ Delivered = <<>>

\* C16: in AwaitingInfo, ConfirmInfo fails without a transition when the
\* amount or the payment type is not set: AmountNotSet when the amount is
\* missing (also when both are), PaymentTypeNotSet when only the payment type
\* is; the tag stays, the fields are what they were, and no event is queued.
C16_ConfirmNeedsAmountAndType ==
    [][\A p \in Callers :
         ( /\ Dispatches(p, "AwaitingInfo", "ConfirmInfo")
           /\ (~IsSome(current_state.amount) \/ ~IsSome(current_state.payment_type)) )
         => RejectedWith(p, IF ~IsSome(current_state.amount)
                            THEN AmountNotSet ELSE PaymentTypeNotSet)]_vars

\* C16 witness: ConfirmInfo was answered PaymentTypeNotSet with an amount and
\* no payment type stored, and nothing was replaced.
C16_Witness ==
    \E p \in Callers :
        /\ pc[p] = "idle"
        /\ result[p] = PaymentTypeNotSet
        /\ IsSome(current_state.amount)
        /\ ~IsSome(current_state.payment_type)
        /\ current_state_type = "AwaitingInfo"
        /\ commits = <<>>

\* C17: in AwaitingInfo with the amount and the payment type set, ConfirmInfo
\* yields the successor EMVPayment with processing = false, no EMV result and
\* the stored amount and payment type as its payment info; with the receiver
\* alive the call returns success with that value stored under the tag
\* EMVPayment, having queued the one event {AwaitingInfo -> EMVPayment}.
C17_ConfirmInfoEntersEMVPayment ==
    [][\A p \in Callers :
         /\ ( /\ Dispatches(p, "AwaitingInfo", "ConfirmInfo")
              /\ IsSome(current_state.amount)
              /\ IsSome(current_state.payment_type) )
            => /\ pc'[p] = "read_old"
               /\ transition'[p] =
                     Some([new_type |-> "EMVPayment",
                           new_state |->
                             [type |-> "EMVPayment",
                              payment_info |->
                                [amount |-> Unwrap(current_state.amount),
                                 payment_type |-> Unwrap(current_state.payment_type)],
                              processing |-> FALSE,
                              emv_result |-> None]])
               /\ queue' = queue
         /\ (NotifyStep(p) /\ action[p].name = "ConfirmInfo" /\ rx_alive)
            => /\ result'[p] = Transitioned("EMVPayment")
               /\ current_state' = Unwrap(transition[p]).new_state
               /\ current_state'.type = "EMVPayment"
               /\ current_state_type' = "EMVPayment"
               /\ queue' = Append(queue, StateChangeEvent("AwaitingInfo", "EMVPayment"))
               /\ received' = received]_vars

\* C17 witness: ConfirmInfo has returned success, the stored value is an
\* EMVPayment that is not processing, and the only event ever queued is
\* {AwaitingInfo -> EMVPayment}.
C17_Witness ==
    \E p \in Callers :
        /\ pc[p] = "idle"
        /\ result[p] = Transitioned("EMVPayment")
        /\ current_state.type = "EMVPayment"
        /\ ~current_state.processing
        /\ current_state_type = "EMVPayment"
        /\ Delivered = <<StateChangeEvent("AwaitingInfo", "EMVPayment")>>

\* The stored value is an EMVPayment whose processing has started.
Processing(state) == state.type = "EMVPayment" /\ state.processing

\* C18: in EMVPayment, ProcessPayment with processing = false sets the flag
\* in place (same tag, same payment info, no event, no replacement) and with
\* processing = true fails with AlreadyProcessing leaving everything as it
\* was; the flag of an EMVPayment value is never cleared while that value is
\* stored, so at most one ProcessPayment succeeds on it.
C18_ProcessPaymentOnce ==
    [][ /\ \A p \in Callers :
             /\ (Dispatches(p, "EMVPayment", "ProcessPayment") /\ ~current_state.processing)
                => /\ pc'[p] = "idle"
                   /\ result'[p] = Stay
                   /\ current_state' = [current_state EXCEPT !.processing = TRUE]
                   /\ current_state_type' = current_state_type
                   /\ queue' = queue
                   /\ received' = received
                   /\ commits' = commits
             /\ (Dispatches(p, "EMVPayment", "ProcessPayment") /\ current_state.processing)
                => RejectedWith(p, AlreadyProcessing)
        /\ (Processing(current_state) /\ current_state'.type = "EMVPayment")
             => Processing(current_state') ]_vars

\* C18 witness: on the EMVPayment the manager was built with, one
\* ProcessPayment succeeded and a second one was answered AlreadyProcessing.
C18_Witness ==
    \E p, q \in Callers :
        /\ result[p] = Stay
        /\ result[q] = AlreadyProcessing
        /\ Processing(current_state)
        /\ commits = <<>>

\* C19: in EMVPayment, CompletePayment fails with NotStarted and changes
\* nothing while processing = false, and otherwise yields the successor
\* PaymentSuccess with the same payment info, which a live receiver sees
\* returned as success; a value is replaced by a PaymentSuccess only when it
\* is an EMVPayment that is processing, and an EMVPayment becomes processing
\* only by a successful ProcessPayment on it.
C19_CompleteNeedsProcessing ==
    [][ /\ \A p \in Callers :
             /\ (Dispatches(p, "EMVPayment", "CompletePayment") /\ ~current_state.processing)
                => RejectedWith(p, NotStarted)
             /\ (Dispatches(p, "EMVPayment", "CompletePayment") /\ current_state.processing)
                => /\ pc'[p] = "read_old"
                   /\ transition'[p] =
                         Some([new_type |-> "PaymentSuccess",
                               new_state |-> PaymentSuccess(current_state.payment_info)])
             /\ (NotifyStep(p) /\ action[p].name = "CompletePayment" /\ rx_alive)
                => /\ result'[p] = Transitioned("PaymentSuccess")
                   /\ current_state'.type = "PaymentSuccess"
                   /\ current_state_type' = "PaymentSuccess"
        /\ (commits' # commits /\ Last(commits').to = "PaymentSuccess")
             => /\ Processing(current_state)
                /\ Last(commits').from = "EMVPayment"
        /\ (Processing(current_state') /\ ~Processing(current_state))
             => /\ current_state.type = "EMVPayment"
                /\ \E p \in Callers :
                      /\ Dispatches(p, "EMVPayment", "ProcessPayment")
                      /\ result'[p] = Stay ]_vars

\* C19 witness: one CompletePayment was answered NotStarted, another has
\* returned success with a PaymentSuccess stored and the one event
\* {EMVPayment -> PaymentSuccess} queued.
C19_Witness ==
    \E p, q \in Callers :
        /\ result[p] = Transitioned("PaymentSuccess")
        /\ result[q] = NotStarted
        /\ current_state.type = "PaymentSuccess"
        /\ current_state_type = "PaymentSuccess"
        /\ Delivered = <<StateChangeEvent("EMVPayment", "PaymentSuccess")>>

\* C20: in EMVPayment, CancelPayment yields a successor whether processing
\* has started or not: a new AwaitingInfo with no amount and no payment type,
\* whose description names neither; with the receiver alive the call returns
\* success with that value stored under the tag AwaitingInfo, having queued
\* the one event {EMVPayment -> AwaitingInfo}.
C20_CancelReturnsToFreshAwaitingInfo ==
    [][\A p \in Callers :
         /\ Dispatches(p, "EMVPayment", "CancelPayment")
            => /\ pc'[p] = "read_old"
               /\ transition'[p] =
                     Some([new_type |-> "AwaitingInfo",
                           new_state |-> [type |-> "AwaitingInfo",
                                          amount |-> None, payment_type |-> None]])
               /\ queue' = queue
         /\ (NotifyStep(p) /\ action[p].name = "CancelPayment" /\ rx_alive)
            => /\ result'[p] = Transitioned("AwaitingInfo")
               /\ current_state' = Unwrap(transition[p]).new_state
               /\ description(current_state') =
                     [text |-> "Aguardando informacoes do pagamento"]
               /\ current_state_type' = "AwaitingInfo"
               /\ queue' = Append(queue, StateChangeEvent("EMVPayment", "AwaitingInfo"))
               /\ received' = received]_vars

\* C20 witness: after a ProcessPayment had started the processing, a
\* CancelPayment has returned success, the stored value is the AwaitingInfo
\* without amount and payment type, and the one event ever queued is
\* {EMVPayment -> AwaitingInfo}.
C20_Witness ==
    \E p, q \in Callers :
        /\ result[p] = Transitioned("AwaitingInfo")
        /\ result[q] = Stay
        /\ calls = 2
        /\ current_state = AwaitingInfo(None, None)
        /\ current_state_type = "AwaitingInfo"
        /\ Delivered = <<StateChangeEvent("EMVPayment", "AwaitingInfo")>>

\* The values one accepted action leads to from the value v: v as the action
\* leaves it in place, or the successor it returns.
Successors(v) ==
    LET outcomes == {CallDispatchFn(v.type, v, a) : a \in {b \in Actions : b.type = Accepts(v.type)}}
    IN  {IF IsSome(t.next) THEN Unwrap(t.next).new_state ELSE t.self :
           t \in {o \in outcomes : ~IsSome(o.err)}}
\* Some sequence of accepted actions leads from a value of S to w: w is in
\* S, or is reached from S and the successors of its values.
RECURSIVE Reaches(_, _)
Reaches(S, w) ==
    IF w \in S THEN TRUE
    ELSE LET T == S \cup UNION {Successors(v) : v \in S}
         IN  IF T = S THEN FALSE ELSE Reaches(T, w)
\* Some sequence of accepted actions leads from v to the empty AwaitingInfo.
ReturnsToStart(v) == Reaches({v}, AwaitingInfo(None, None))

\* C21: no state is terminal: the value the manager starts with and every
\* value it comes to store has a sequence of accepted actions leading to the
\* AwaitingInfo with amount and payment type unset; in PaymentSuccess, Reset
\* yields that AwaitingInfo as successor, and with the receiver alive the
\* call returns success with it stored under the tag AwaitingInfo.
C21_NoTerminalState ==
    /\ ReturnsToStart(current_state)
    /\ [][ /\ current_state' # current_state => ReturnsToStart(current_state')
           /\ \A p \in Callers :
                /\ Dispatches(p, "PaymentSuccess", "Reset")
                   => /\ pc'[p] = "read_old"
                      /\ transition'[p] =
                            Some([new_type |-> "AwaitingInfo",
                                  new_state |-> AwaitingInfo(None, None)])
                /\ (NotifyStep(p) /\ action[p].name = "Reset" /\ rx_alive)
                   => /\ result'[p] = Transitioned("AwaitingInfo")
                      /\ current_state' = AwaitingInfo(None, None)
                      /\ current_state_type' = "AwaitingInfo" ]_vars

\* C21 witness: a Reset has returned success from PaymentSuccess, after the
\* payment was processed and completed, and the empty AwaitingInfo is stored.
C21_Witness ==
    \E p \in Callers :
        /\ pc[p] = "idle"
        /\ result[p] = Transitioned("AwaitingInfo")
        /\ Len(commits) = 2
        /\ commits[1].to = "PaymentSuccess"
        /\ commits[2].from = "PaymentSuccess"
        /\ current_state = AwaitingInfo(None, None)
        /\ current_state_type = "AwaitingInfo"

\* The tag after each call of the script, and the events queued by then.
FlowTag ==
    <<"AwaitingInfo", "AwaitingInfo", "EMVPayment", "EMVPayment", "PaymentSuccess">>
FlowEvents(k) ==
    IF k < 3 THEN <<>>
    ELSE IF k < 5 THEN <<StateChangeEvent("AwaitingInfo", "EMVPayment")>>
    ELSE <<StateChangeEvent("AwaitingInfo", "EMVPayment"),
           StateChangeEvent("EMVPayment", "PaymentSuccess")>>

\* C22: in the sequential run SetAmount(positive), SetPaymentType,
\* ConfirmInfo, ProcessPayment, CompletePayment from the empty AwaitingInfo,
\* no call returns an error; after the k-th call has returned, the tag (what
\* get_current_state_type reads) and the type of the stored value are
\* AwaitingInfo, AwaitingInfo, EMVPayment, EMVPayment, PaymentSuccess for
\* k = 1..5; and the events ever queued are
\* {AwaitingInfo -> EMVPayment} from the third call on, followed by
\* {EMVPayment -> PaymentSuccess} after the fifth, and nothing else.
C22_FullFlow ==
    /\ \A p \in Callers : ~IsErr(result[p])
    /\ (AllReturned /\ calls >= 1)
         => /\ current_state_type = FlowTag[calls]
            /\ current_state.type = FlowTag[calls]
            /\ Delivered = FlowEvents(calls)

\* C22 witness: the five calls have returned, the last with the transition
\* to PaymentSuccess, and the receiver has taken the two events in order.
C22_Witness ==
    /\ AllReturned
    /\ calls = Len(FlowScript)
    /\ \E p \in Callers : result[p] = Transitioned("PaymentSuccess")
    /\ current_state_type = "PaymentSuccess"
    /\ received = <<StateChangeEvent("AwaitingInfo", "EMVPayment"),
                    StateChangeEvent("EMVPayment", "PaymentSuccess")>>
    /\ queue = <<>>

\* Caller p's get_description::<S> returns (lines 117-122).
DescribeStep(p) == pc[p] = "describe" /\ pc'[p] = "idle"

\* C23: get_description::<S> returns the projection of the stored value when
\* the concrete type of the value stored while it holds the read guard is S,
\* and only then; for any other S it returns StateTypeMismatch, which is not
\* a projection result; the stored value and the tag are left as they were.
C23_DescriptionIffTypeMatches ==
    [][\A p \in Callers :
         DescribeStep(p)
         => /\ (current_state.type = Unwrap(reading[p]))
                 => result'[p] = [ok |-> TRUE, description |-> description(current_state)]
            /\ (current_state.type # Unwrap(reading[p]))
                 => result'[p] = StateTypeMismatch
            /\ current_state' = current_state
            /\ current_state_type' = current_state_type]_vars

\* C23 witness: before any execute call, one get_description returned the
\* description of the stored value and another, for a different type,
\* returned StateTypeMismatch.
C23_Witness ==
    \E p, q \in Callers :
        /\ calls = 0
        /\ pc[p] = "idle"
        /\ pc[q] = "idle"
        /\ result[p] = [ok |-> TRUE, description |-> description(current_state)]
        /\ result[q] = StateTypeMismatch

\* C24: all clones of the facade point to the same state value, the same tag,
\* the same sender side and the same receiver; so whatever clones the execute
\* calls went through, the tag one clone reads is the tag every clone reads,
\* and the events of all of them are in the one queue, in commit order.
C24_ClonesShareState ==
    /\ \A p, q \in Callers :
          (IsSome(handle[p]) /\ IsSome(handle[q])) => Unwrap(handle[p]) = Unwrap(handle[q])
    /\ \A p \in Callers : (pc[p] # "idle") => IsSome(handle[p])
    /\ Cardinality(Unsent) <= Len(commits)
    /\ Delivered = SubSeq(CommitEvents, 1, Len(commits) - Cardinality(Unsent))

\* C24 witness: every caller holds a clone; one has made the transition to
\* EMVPayment, another then read the tag EMVPayment through its own clone,
\* and the one event is in the shared queue.
C24_Witness ==
    /\ \A p \in Callers : IsSome(handle[p])
    /\ \E p, q \in Callers :
          /\ p # q
          /\ result[p] = Transitioned("EMVPayment")
          /\ result[q] = [state_type |-> "EMVPayment", value_type |-> "EMVPayment"]
    /\ queue = <<StateChangeEvent("AwaitingInfo", "EMVPayment")>>

\* C25: right after StateManager::new, before any execute call, the tag (and
\* so every tag get_current_state_type has returned) is the initial tag, the
\* tag of the initial value, and no event is queued or was ever received: a
\* try_recv finds the channel open and empty.
C25_InitialTagAndNoEvent ==
    (calls = 0)
    => /\ current_state \in InitialStates
       /\ current_state_type = current_state.type
       /\ \A p \in Callers :
             IsReadOf(result[p]) => result[p].state_type = current_state.type
       /\ queue = <<>>
       /\ received = <<>>
       /\ commits = <<>>

\* C25 witness: a manager built on an EMVPayment has been asked for its tag
\* before any execute call, with the receiver alive and nothing queued.
C25_Witness ==
    /\ calls = 0
    /\ rx_alive
    /\ queue = <<>>
    /\ current_state.type = "EMVPayment"
    /\ \E p \in Callers : IsReadOf(result[p]) /\ result[p].state_type = "EMVPayment"

\* C26: try_next_event never waits for an event to arrive: no call of it is
\* pending on the receiver's Mutex while the holder of that Mutex, a
\* next_event call, is itself waiting on an empty queue.
C26_TryNextEventNeverWaits ==
    \A p \in Callers :
        (pc[p] = "try_lock") => ~(IsSome(rx_lock) /\ queue = <<>>)

\* A next_event or try_next_event call of caller p returns.
ReceiveStep(p) == pc[p] \in {"recv", "try_lock"} /\ pc'[p] = "idle"

\* C27: every event is handed out at most once and in the order of the
\* queue: a returning next_event or try_next_event call of any clone returns
\* the oldest queued event and removes it from the queue in the same step,
\* no other call's result changes in that step, and a try_next_event that
\* finds the queue empty returns no event and takes nothing.
C27_EventsDeliveredOnceInOrder ==
    [][\A p \in Callers :
         ReceiveStep(p)
         => /\ \A q \in Callers \ {p} : result'[q] = result[q]
            /\ (queue # <<>>)
                 => /\ result'[p].event = Some(Head(queue))
                    /\ queue' = Tail(queue)
                    /\ received' = Append(received, Head(queue))
            /\ (queue = <<>>)
                 => /\ result'[p].event = None
                    /\ queue' = queue
                    /\ received' = received]_vars

\* C27 witness: two events were queued; a next_event call of one clone
\* returned the first and a try_next_event call of another the second.
C27_Witness ==
    \E p, q \in Callers :
        /\ p # q
        /\ result[p] = [event |-> Some(StateChangeEvent("AwaitingInfo", "EMVPayment"))]
        /\ result[q] = [ok |-> TRUE,
                        event |-> Some(StateChangeEvent("EMVPayment", "AwaitingInfo"))]
        /\ received = <<StateChangeEvent("AwaitingInfo", "EMVPayment"),
                        StateChangeEvent("EMVPayment", "AwaitingInfo")>>
        /\ queue = <<>>

\* C28: an execute call that holds the write guard of current_state never
\* has to wait for another lock: when it is about to take the write guard of
\* current_state_type (line 94), no other caller holds a guard of that lock.
C28_NoWaitUnderStateLock ==
    \A p \in Callers :
        (state_guard = Some(p) /\ pc[p] = "write_type") => tag_readers = {}

\* C29: concurrent SetAmount calls with positive amounts on the facade in
\* AwaitingInfo: no call returns an error, the tag stays AwaitingInfo and no
\* event is queued; each call, in the step in which it holds the write
\* guard, returns success and stores its own amount, and the stored value
\* changes in no other step, so the amount left is that of the call that
\* held the guard last.
C29_ConcurrentSetAmount ==
    /\ [](/\ \A p \in Callers : ~IsErr(result[p])
          /\ current_state_type = "AwaitingInfo"
          /\ current_state.type = "AwaitingInfo"
          /\ Delivered = <<>>
          /\ commits = <<>>)
    /\ [][ /\ \A p \in Callers :
                DispatchStep(p)
                => /\ pc'[p] = "idle"
                   /\ result'[p] = Stay
                   /\ current_state'.amount = Some(action[p].amount)
                   /\ current_state'.payment_type = current_state.payment_type
           /\ (\A p \in Callers : ~DispatchStep(p)) => current_state' = current_state ]_vars

\* C29 witness: all calls are spent, every caller's call has returned
\* success, the largest of the spawned amounts is stored, and no event exists.
C29_Witness ==
    /\ AllReturned
    /\ calls = MaxCalls
    /\ \A p \in Callers : result[p] = Stay
    /\ current_state = AwaitingInfo(Some(F64(NumCallers)), None)
    /\ current_state_type = "AwaitingInfo"
    /\ Delivered = <<>>

\* C30: an event can be received only after the value and the tag of its
\* transition have been replaced: while the newest event handed to the
\* channel is that of the k-th commit, the tag is the `to` of the k-th or of
\* a later commit, never the tag from before that commit was written.
C30_EventAfterTagWritten ==
    (Delivered # <<>>)
    => /\ Len(Delivered) <= Len(commits)
       /\ Last(Delivered) = CommitEvents[Len(Delivered)]
       /\ \E j \in Len(Delivered)..Len(commits) : current_state_type = commits[j].to

\* C30 witness: the event of the first commit is queued while a second commit
\* is under way: its value is stored, its tag written, its event not yet sent.
C30_Witness ==
    /\ rx_alive
    /\ Len(queue) = 1
    /\ Len(commits) = 2
    /\ \E p \in Callers : pc[p] = "notify"
    /\ current_state_type = commits[2].to
    /\ current_state_type # commits[1].to

\* C31: once PaymentStateApi::new has returned (somebody holds a facade),
\* get_dispatch_fn finds a routing function for each of AwaitingInfo,
\* EMVPayment and PaymentSuccess, whatever registry calls came before.
C31_NewGuaranteesRegistry ==
    (\E p \in Callers : IsSome(handle[p]))
    => \A t \in StateType : IsSome(get_dispatch_fn(registry, t))

\* A step of one of the two read operations by caller p: the guard taken or
\* the answer returned.
ReadOpStep(p) ==
    /\ pc'[p] # pc[p]
    /\ \/ pc[p] \in {"tag_read", "describe"}
       \/ pc'[p] \in {"tag_read", "describe"}

\* C32: every step of get_current_state_type and of get_description, whether
\* it succeeds or fails, leaves the stored value, the tag, the registry and
\* the event queue as they were; a get_current_state_type call returns the
\* tag, which no step changes while a reader holds its guard, and which is
\* the type of the stored value when no transition is in progress; as long
\* as no transition was made all the tags returned are the same.
C32_ReadsChangeNothing ==
    [][ /\ (commits' = <<>>)
           => \A p, q \in Callers :
                 (IsReadOf(result'[p]) /\ IsReadOf(result'[q]))
                 => result'[p].state_type = result'[q].state_type
        /\ \A p \in Callers :
                ReadOpStep(p)
             => UNCHANGED <<current_state, current_state_type, registry, queue,
                            received, commits, rx_alive>>
        /\ \A p \in Callers :
             (pc[p] = "tag_read" /\ pc'[p] = "idle")
             => /\ IsReadOf(result'[p])
                /\ result'[p].state_type = current_state_type
                /\ (Unsent = {}) => result'[p].state_type = current_state.type
        /\ (tag_readers # {}) => current_state_type' = current_state_type ]_vars

\* C32 witness: after a transition whose event is still queued, one caller
\* holds the tag it read and another the failure of a get_description for a
\* state type that is not the stored one.
C32_Witness ==
    /\ queue # <<>>
    /\ \E p, q \in Callers :
          /\ pc[p] = "idle" /\ pc[q] = "idle"
          /\ IsReadOf(result[p])
          /\ result[p].state_type = current_state_type
          /\ result[q] = StateTypeMismatch
          /\ calls = 1
          /\ commits # <<>>
          /\ Last(commits).to = current_state_type

\* What a step may do to the payment data, from the stored value v to the
\* stored value w.
Carried(v, w) ==
    CASE v.type = "AwaitingInfo" /\ w.type = "EMVPayment" ->
           /\ IsSome(v.amount) /\ IsSome(v.payment_type)
           /\ w.payment_info = PaymentInfo(Unwrap(v.amount), Unwrap(v.payment_type))
      [] v.type = "EMVPayment" /\ w.type \in {"EMVPayment", "PaymentSuccess"} ->
           w.payment_info = v.payment_info
      [] v.type = "PaymentSuccess" /\ w.type = "PaymentSuccess" ->
           w.payment_info = v.payment_info
      [] OTHER -> TRUE

\* C33: the payment info of PaymentSuccess is that of the EMVPayment it
\* replaces, the payment info of EMVPayment is the amount and payment type
\* AwaitingInfo held at the ConfirmInfo that built it, ProcessPayment leaves
\* it alone, and the amount and the payment type AwaitingInfo holds are those
\* of the last SetAmount and SetPaymentType that succeeded: a SetAmount with
\* a positive amount stores that amount, whatever was stored before, and
\* leaves the payment type alone, a SetPaymentType stores its payment type
\* and leaves the amount alone, and no other step changes either field.
C33_PaymentInfoCarried ==
    [][ /\ Carried(current_state, current_state')
        /\ current_state.type = "AwaitingInfo"
           => /\ \A p \in Callers :
                    DispatchStep(p)
                    => CASE action[p].name = "SetAmount" /\ ~f64_le(action[p].amount, F64(0)) ->
                              /\ result'[p] = Stay
                              /\ current_state' =
                                    [current_state EXCEPT !.amount = Some(action[p].amount)]
                         [] action[p].name = "SetPaymentType" ->
                              /\ result'[p] = Stay
                              /\ current_state' =
                                    [current_state EXCEPT
                                       !.payment_type = Some(action[p].payment_type)]
                         [] OTHER -> current_state' = current_state
              /\ ((\A p \in Callers : ~DispatchStep(p)) /\ current_state'.type = "AwaitingInfo")
                 => current_state' = current_state
        /\ \A p \in Callers :
              (DispatchStep(p) /\ pc'[p] = "read_old")
              => /\ current_state' = current_state
                 /\ Carried(current_state, Unwrap(transition'[p]).new_state) ]_vars

\* C33 witness: a run of MaxCarryCalls calls, one more than setting the
\* amount, setting the payment type, confirming, processing and completing
\* take, ends in a PaymentSuccess holding a debit payment of the largest
\* amount these runs set.
C33_Witness ==
    /\ AllReturned
    /\ calls = MaxCarryCalls
    /\ current_state = PaymentSuccess(PaymentInfo(F64(MaxAmount + 1), "Debit"))
    /\ current_state_type = "PaymentSuccess"
    /\ Len(commits) = 2
    /\ commits[1].from = "AwaitingInfo"
    /\ commits[2].to = "PaymentSuccess"

\* A call of execute, get_current_state_type or get_description begins.
CallBegins ==
    \E p \in Callers : pc[p] = "idle" /\ pc'[p] # "idle"

\* C34: under fair scheduling of the two locks, and when only finitely many
\* calls are made, every call that has started returns: a caller inside
\* execute, get_current_state_type or get_description is eventually back
\* with a result, a success or an error.
C34_EveryCallReturns ==
    (<>[][~CallBegins]_vars)
    => \A p \in Callers :
          (pc[p] # "idle") ~> (pc[p] = "idle" /\ result[p] # NoResult)

\* C34 witness: all the calls have been made, the callers were inside
\* execute together, each behind the other for the write guard, and all are
\* back, one with a transition and one with an error.
C34_Witness ==
    /\ calls = MaxCalls
    /\ AllReturned
    /\ commits # <<>>
    /\ \E p, q \in Callers :
          /\ result[p] = Transitioned(current_state_type)
          /\ IsErr(result[q])

\* C35: whatever calls were abandoned, when no execute call is between its
\* replacement of the value and its return the tag matches the concrete type
\* of the stored value, and with a live receiver as many events were enqueued
\* as replacements were made.
C35_AbandonLeavesConsistent ==
    (\A p \in Callers : pc[p] \notin {"read_old", "write_type", "notify"})
    => /\ current_state_type = current_state.type
       /\ rx_alive => Len(Delivered) = Len(commits)

\* C36: of the concurrent ConfirmInfo calls on an AwaitingInfo with amount
\* and payment type set, the first to hold the write guard makes the only
\* replacement and returns the transition to EMVPayment, every other call
\* returns an error; one event {AwaitingInfo -> EMVPayment} is emitted, and
\* when all have returned the state is EMVPayment with processing = false.
C36_OneConfirmWins ==
    [][ /\ Len(commits') <= 1
        /\ Delivered' \in {<<>>, <<StateChangeEvent("AwaitingInfo", "EMVPayment")>>}
        /\ \A p \in Callers :
              DispatchStep(p)
              => IF commits = <<>>
                 THEN /\ pc'[p] = "read_old"
                      /\ Unwrap(transition'[p]).new_type = "EMVPayment"
                 ELSE /\ pc'[p] = "idle"
                      /\ IsErr(result'[p])
                      /\ current_state' = current_state
        /\ \A p \in Callers :
              (pc[p] = "idle" /\ pc'[p] = "acquire") => result'[p] = NoResult
        /\ \A p \in Callers :
              (pc[p] = "idle" /\ pc'[p] = "idle" /\ result'[p] # result[p])
              => IsErr(result'[p])
        /\ \A p \in Callers :
              NotifyStep(p)
              => /\ result'[p] = Transitioned("EMVPayment")
                 /\ Delivered' = <<StateChangeEvent("AwaitingInfo", "EMVPayment")>>
        /\ (AllReturned' /\ calls' > 0)
           => /\ current_state'.type = "EMVPayment"
              /\ ~current_state'.processing
              /\ current_state_type' = "EMVPayment"
              /\ Len(commits') = 1
              /\ Len(Delivered') = 1 ]_vars

\* C36 witness: every caller has made one call and all have returned; one
\* caller holds the transition to EMVPayment, another the error of a call
\* routed by the tag it read before the replacement, and the one event was
\* received.
C36_Witness ==
    /\ AllReturned
    /\ calls = NumCallers
    /\ current_state.type = "EMVPayment"
    /\ received = <<StateChangeEvent("AwaitingInfo", "EMVPayment")>>
    /\ \E p, q \in Callers :
          /\ result[p] = Transitioned("EMVPayment")
          /\ result[q] = StateTypeMismatch

\* The transitions the three states can return (awaiting_info.rs:77-80,
\* emv_payment.rs:66-69 and 76-79, payment_success.rs:27-44).
LegalTransitions ==
    {<<"AwaitingInfo", "EMVPayment">>, <<"EMVPayment", "PaymentSuccess">>,
     <<"EMVPayment", "AwaitingInfo">>, <<"PaymentSuccess", "AwaitingInfo">>}

\* C37: the events emitted so far form a chain: the first starts at the tag
\* the manager was built with (the tag found by the first replacement), each
\* later one starts where the one before it ended, each is one of the four
\* legal transitions, and with a live receiver and no execute call in
\* progress the last one ends at the current tag.
C37_EventsFormChain ==
    /\ (Delivered # <<>>)
       => /\ commits # <<>>
          /\ Delivered[1].from_state = commits[1].tag_before
    /\ (commits = <<>>) => Delivered = <<>>
    /\ \A i \in 2..Len(Delivered) : Delivered[i].from_state = Delivered[i - 1].to_state
    /\ \A i \in 1..Len(Delivered) :
          <<Delivered[i].from_state, Delivered[i].to_state>> \in LegalTransitions
    /\ (rx_alive /\ Delivered # <<>> /\ \A p \in Callers : pc[p] = "idle")
       => Last(Delivered).to_state = current_state_type

\* C37 witness: two events were emitted, the second starting where the first
\* ended, and every call has returned.
C37_Witness ==
    /\ rx_alive
    /\ \A p \in Callers : pc[p] = "idle"
    /\ Len(Delivered) = 2
    /\ Delivered[1].from_state = "EMVPayment"
    /\ Delivered[2].from_state = Delivered[1].to_state
    /\ Delivered[2].to_state = current_state_type

\* C38: an execute call that returns an error has changed nothing: when the
\* one call made so far has returned an error, no replacement of the stored
\* value was made, the tag still matches the stored value and no event was
\* enqueued.
C38_ErrorMeansUnchanged ==
    (calls = 1 /\ \E p \in Callers : pc[p] = "idle" /\ IsErr(result[p]))
    => /\ commits = <<>>
       /\ current_state \in InitialStates
       /\ current_state_type = current_state.type
       /\ Delivered = <<>>

\* The amounts a state value holds are all strictly positive.
PositiveAmounts(v) ==
    CASE v.type = "AwaitingInfo" -> IsSome(v.amount) => f64_gt(Unwrap(v.amount), F64(0))
      [] v.type \in {"EMVPayment", "PaymentSuccess"} -> f64_gt(v.payment_info.amount, F64(0))

\* A call of execute is made with SetAmount of an amount that is not a whole
\* value.
SubmitsNaN ==
    \E p \in Callers :
        /\ pc[p] = "idle" /\ pc'[p] = "acquire"
        /\ action'[p].name = "SetAmount"
        /\ action'[p].amount.nan

\* Every amount the runtime holds is strictly positive: the amount of
\* AwaitingInfo when set, the payment info of EMVPayment and of
\* PaymentSuccess, and that of a successor state a call is about to store;
\* and no call in progress carries an amount that is not a whole value.
AllAmountsPositive ==
    /\ PositiveAmounts(current_state)
    /\ \A p \in Callers :
          /\ IsSome(transition[p]) => PositiveAmounts(Unwrap(transition[p]).new_state)
          /\ action[p].name = "SetAmount" => ~action[p].amount.nan

\* C39: from the empty AwaitingInfo and after any sequence of actions whose
\* amounts are whole values, every amount the runtime holds is strictly
\* positive, so EMVPayment and PaymentSuccess are never reached with an
\* amount that is not positive: it is so at the start, and every step other
\* than the submission of an amount that is not a whole value keeps it so.
C39_AmountsPositive ==
    [][ /\ calls = 0 => AllAmountsPositive
        /\ (AllAmountsPositive /\ ~SubmitsNaN) => AllAmountsPositive' ]_vars

\* C39 witness: a SetAmount with a non-positive amount was refused and the
\* run went on to a PaymentSuccess holding the largest amount.
C39_Witness ==
    /\ current_state.type = "PaymentSuccess"
    /\ current_state.payment_info.amount = F64(MaxAmount)
    /\ \E p \in Callers : result[p] = InvalidAmount
====
